---- MODULE Spec2Model ----
(***************************************************************************)
(* Comparison & duty aggregation orchestrator of dutysnap.                 *)
(*                                                                         *)
(* runComparison is an async function: every `await` is a suspension point *)
(* and the code between two awaits runs to completion.  The model has one  *)
(* action per step of runComparison and one per adapter call that returns. *)
(*                                                                         *)
(* Representation of JavaScript values:                                    *)
(*   - optional text fields (name, description, image, url, error) are     *)
(*     TLA+ strings; UNDEF stands for `undefined`, "" is the empty string; *)
(*   - HS codes and numeric strings are tuples of one-character strings,   *)
(*     so that replace(/\./g,''), slice and parseFloat are computed;       *)
(*   - a value that may be undefined, a number, a string or NaN is a       *)
(*     tagged record (Undefined, Num(n), Str(s), NaN);                     *)
(*   - a confidence is an integer number of hundredths (0.85 is 85), and   *)
(*     so is a score;                                                      *)
(*   - a sparse object keyed by provider is a function whose domain is the *)
(*     set of keys present.                                                *)
(***************************************************************************)
EXTENDS Integers, Sequences, FiniteSets, TLC

VARIABLES
  env,                \* providers whose API key is configured (process.env)
  pc,                 \* position of runComparison
  request,            \* the ComparisonRequest handed to runComparison
  id,                 \* uuid of the comparison
  input,              \* const input: ClassificationInput
  calls,              \* classification adapter calls: status and argument
  zonosRequest,       \* GraphQL variables sent to the Zonos classify API
  fetches,            \* backends a request was sent to
  classifications,    \* classifications[provider]
  productValue,       \* let productValue
  isEstimatedValue,   \* let isEstimatedValue
  dutyProviders,      \* const dutyProviders
  dutyPromises,       \* const dutyPromises: arguments, status and result
  dutyCalculations,   \* let dutyCalculations
  comparisonResults,  \* the in-memory Map id -> ComparisonResult
  timestamp,          \* const timestamp of the comparison
  keyOrder,           \* insertion order of the keys of comparisonResults
  runs,               \* concurrent invocations of runComparison
  httpExchange,       \* POST /api/compare: req.body and the status replied
  hasVoice,           \* the native Voice module is linked
  mode,               \* useVoiceCommands: const [mode, setMode]
  isProcessingRef,    \* useVoiceCommands: isProcessingRef.current
  speechPc,           \* position of handleSpeechResult
  startTimers,        \* pending setTimeout(() => startListening(), 500)
  pendingStarts,      \* calls of startListening awaiting Voice.start
  isActiveRef,        \* useSpeechRecognition: isActiveRef.current
  recognizer,         \* the native recognizer: off, on or stopping
  absoluteTimerRef,   \* the absolute timeout is armed
  silenceTimerRef,    \* the silence timeout is armed
  taps                \* taps and simulated commands so far

voiceVars == <<hasVoice, mode, isProcessingRef, speechPc, startTimers,
               pendingStarts, isActiveRef, recognizer, absoluteTimerRef,
               silenceTimerRef, taps>>

vars == <<env, pc, request, id, input, calls, zonosRequest, fetches,
          classifications,
          productValue, isEstimatedValue, dutyProviders, dutyPromises,
          dutyCalculations, comparisonResults, timestamp, keyOrder, runs,
          httpExchange, voiceVars>>

----------------------------------------------------------------------------
(* Bounds of the model *)

\* longest numeric string a provider payload carries as estimatedValueEUR
MaxStrLen == 2

----------------------------------------------------------------------------
(* JavaScript values *)

UNDEF == "undefined"
Undefined == [t |-> "undefined"]
NaN == [t |-> "NaN"]
Num(n) == [t |-> "number", v |-> n]
Str(s) == [t |-> "string", s |-> s]

\* !!s for an optional text field
TruthyStr(s) == s # UNDEF /\ s # ""

\* !!x for a tagged value
Truthy(x) ==
  CASE x.t = "number" -> x.v # 0
    [] x.t = "string" -> x.s # <<>>
    [] OTHER -> FALSE

\* x > 0 for a tagged value (false for undefined and NaN)
GreaterThanZero(x) == x.t = "number" /\ x.v > 0

Providers == {"anthropic", "openai", "zonos"}

\* for (const provider of ['anthropic', 'openai', 'zonos'] as const)
ProviderOrder == <<"anthropic", "openai", "zonos">>

----------------------------------------------------------------------------
(* Strings: replace(/\./g, '') and parseFloat *)

StripDots(s) == SelectSeq(s, LAMBDA c : c # ".")

\* s.slice(0, n)
SliceTo(s, n) == SubSeq(s, 1, IF Len(s) < n THEN Len(s) ELSE n)

Digits == {"0", "7"}

DigitValue(c) == IF c = "7" THEN 7 ELSE 0

RECURSIVE DigitPrefix(_)
DigitPrefix(s) ==
  IF s = <<>> \/ Head(s) \notin Digits
  THEN <<>>
  ELSE <<Head(s)>> \o DigitPrefix(Tail(s))

RECURSIVE DecimalValue(_)
DecimalValue(d) ==
  IF d = <<>>
  THEN 0
  ELSE 10 * DecimalValue(SubSeq(d, 1, Len(d) - 1)) + DigitValue(d[Len(d)])

\* parseFloat: optional sign, then the longest prefix of digits; NaN when
\* there is no digit; what follows the digits is ignored
parseFloat(s) ==
  LET neg  == s # <<>> /\ Head(s) = "-"
      body == IF neg THEN Tail(s) ELSE s
      d    == DigitPrefix(body)
  IN IF d = <<>>
     THEN NaN
     ELSE Num(IF neg THEN 0 - DecimalValue(d) ELSE DecimalValue(d))

----------------------------------------------------------------------------
(* Dates: new Date().toISOString() and new Date(text).getTime().  An instant *)
(* is a count of milliseconds; its text is the count in two decimal digits.  *)

DecimalDigits == <<"0", "1", "2", "3", "4", "5", "6", "7", "8", "9">>

toISOString(ms) ==
  <<DecimalDigits[((ms \div 10) % 10) + 1], DecimalDigits[(ms % 10) + 1]>>

DecimalDigitValue(c) == CHOOSE n \in 0..9 : DecimalDigits[n + 1] = c

\* new Date(timestamp).getTime()
getTime(text) == 10 * DecimalDigitValue(text[1]) + DecimalDigitValue(text[2])

\* the clock reading of a comparison run on its own
StartTime == 0

----------------------------------------------------------------------------
(* Inputs: requests the route hands to runComparison, backend responses *)

StrChars == {"-", "7"}

Strings(n) == UNION {[1..k -> StrChars] : k \in 0..n}

Code1 == <<"4", "2", "0", "2", ".", "2", "1">>
Code2 == <<"6", "4", "0", "3", ".", "9", "9">>

\* ComparisonRequestSchema: productValue is absent or positive, imageUrl is
\* absent or a URL, and at least one of the four content fields is truthy
\* and (data model) an image comes as inline bytes or as a URL, not both
Requests ==
  {r \in [imageBase64 : {UNDEF, "data:image/png;base64,AAAA"},
          imageUrl : {UNDEF, "https://img.example/bag.png"},
          productName : {UNDEF, "", "handbag"},
          productDescription : {UNDEF, "brown leather bag"},
          productValue : {Undefined, Num(250)},
          providers : SUBSET Providers] :
     /\ \/ TruthyStr(r.imageBase64)
        \/ TruthyStr(r.imageUrl)
        \/ TruthyStr(r.productName)
        \/ TruthyStr(r.productDescription)
     /\ ~(TruthyStr(r.imageBase64) /\ TruthyStr(r.imageUrl))}

\* estimatedValueEUR as the reasoning provider's JSON may carry it
Estimates ==
  {Undefined, Num(0 - 5), Num(0), Num(150)}
    \cup {Str(s) : s \in Strings(MaxStrLen)}

\* the JSON object parsed from the reasoning provider's text block
\* three families: the label and description vary, the estimate varies, the
\* code is missing while a value is estimated
AnthropicPayloads ==
  [hsCode : {Undefined, Str(Code1)},
   hsCode6 : {Undefined},
   hsCode8 : {Undefined},
   confidence : {Num(90)},
   description : {UNDEF, "Handbags of leather"},
   productIdentified : {UNDEF, "leather handbag"},
   estimatedValueEUR : {Undefined}]
  \cup
  [hsCode : {Str(Code1)},
   hsCode6 : {Undefined},
   hsCode8 : {Undefined},
   confidence : {Num(90)},
   description : {"Handbags of leather"},
   productIdentified : {"leather handbag"},
   estimatedValueEUR : Estimates]
  \cup
  [hsCode : {Undefined},
   hsCode6 : {Undefined},
   hsCode8 : {Undefined},
   confidence : {Num(90)},
   description : {"Handbags of leather"},
   productIdentified : {"leather handbag"},
   estimatedValueEUR : {Num(150)}]

\* "throw" is any exception raised inside the adapter's try block: the SDK
\* or fetch rejects, the status is not 2xx, the body is not JSON
AnthropicResponses ==
  {[kind |-> "throw"]} \cup {[kind |-> "json", parsed |-> p] : p \in AnthropicPayloads}

OpenAIPayloads ==
  [hsCode : {Undefined, Str(Code2)},
   hsCode6 : {Undefined},
   hsCode8 : {Undefined},
   confidence : {Num(85)},
   description : {"Footwear"}]

OpenAIResponses ==
  {[kind |-> "throw"]} \cup {[kind |-> "json", parsed |-> p] : p \in OpenAIPayloads}

\* data.classificationsCalculate[0] of the Zonos reply: hsCode may be missing
\* hsCode is hsCode.code; the query does not ask for a confidence
ZonosPayloads ==
  [hsCode : {Undefined, Str(<<>>), Str(Code1), Str(Code2)},
   confidence : {Undefined}]

ZonosResponses ==
  {[kind |-> "throw"]} \cup {[kind |-> "json", parsed |-> p] : p \in ZonosPayloads}

\* the landed cost reply: whether errors holds the domestic-shipment message,
\* whether landedCostCalculateWorkflow has a first result, and the amounts
\* of its duties, taxes and fees, already summed
DutyResponses ==
  {[kind |-> "throw"]}
    \cup {[kind |-> "json", domestic |-> FALSE, results |-> TRUE,
           dutiesTotal |-> 30, taxesTotal |-> 56, feesTotal |-> 0]}

----------------------------------------------------------------------------
(* Classification adapters *)

\* the error result is returned with the confidence of a defaulted result
ClassificationError_HalfConfidence(provider, message) ==
  [provider |-> provider,
   hsCode |-> <<>>,
   hsCode6 |-> <<>>,
   hsCode8 |-> Undefined,
   description |-> "",
   confidence |-> 50,
   error |-> message,
   estimatedValueEUR |-> Undefined,
   rawResponse |-> Undefined]

\* the result returned without an API key and by the catch block
ClassificationError(provider, message) ==
  [provider |-> provider,
   hsCode |-> <<>>,
   hsCode6 |-> <<>>,
   hsCode8 |-> Undefined,
   description |-> "",
   confidence |-> 0,
   error |-> message,
   estimatedValueEUR |-> Undefined,
   rawResponse |-> Undefined]

\* parsed.hsCode?.replace(/\./g, '') || ''
CodeOf(field) == IF field.t = "string" THEN StripDots(field.s) ELSE <<>>

\* x?.replace(...) is evaluated without a TypeError
Replaceable(field) == field.t \in {"undefined", "string"}

\* parsed.hsCode6?.replace(/\./g, '') ||
\*   parsed.hsCode?.replace(/\./g, '').slice(0, 6) || ''
HsCode6Of(parsed) ==
  IF CodeOf(parsed.hsCode6) # <<>>
  THEN CodeOf(parsed.hsCode6)
  ELSE SliceTo(CodeOf(parsed.hsCode), 6)

\* parsed.hsCode8?.replace(/\./g, '')
HsCode8Of(parsed) ==
  IF parsed.hsCode8.t = "string" THEN Str(StripDots(parsed.hsCode8.s)) ELSE Undefined

\* parsed.confidence || 0.5
ConfidenceOr(field, default) == IF Truthy(field) THEN field.v ELSE default

\* the fields the reasoning and the openai adapter build alike
ParsedClassification(provider, parsed) ==
  [provider |-> provider,
   hsCode |-> CodeOf(parsed.hsCode),
   hsCode6 |-> HsCode6Of(parsed),
   hsCode8 |-> HsCode8Of(parsed),
   description |-> IF TruthyStr(parsed.description) THEN parsed.description ELSE "",
   confidence |-> ConfidenceOr(parsed.confidence, 50),
   error |-> UNDEF,
   estimatedValueEUR |-> Undefined,
   rawResponse |-> parsed]

classifyWithAnthropic(hasKey, response) ==
  IF ~hasKey
  THEN ClassificationError("anthropic", "ANTHROPIC_API_KEY not configured")
  ELSE IF response.kind = "throw"
  THEN ClassificationError("anthropic", "Unknown error")
  ELSE LET parsed == response.parsed
       IN IF ~(Replaceable(parsed.hsCode) /\ Replaceable(parsed.hsCode6)
                 /\ Replaceable(parsed.hsCode8))
          THEN ClassificationError("anthropic", "replace is not a function")
          ELSE
          [ParsedClassification("anthropic", parsed) EXCEPT
             !.estimatedValueEUR = IF parsed.estimatedValueEUR.t = "number"
                                   THEN parsed.estimatedValueEUR ELSE Undefined]

classifyWithOpenAI(hasKey, response) ==
  IF ~hasKey
  THEN ClassificationError("openai", "OPENAI_API_KEY not configured")
  ELSE IF response.kind = "throw"
  THEN ClassificationError("openai", "Unknown error")
  ELSE LET parsed == response.parsed
       IN IF ~(Replaceable(parsed.hsCode) /\ Replaceable(parsed.hsCode6)
                 /\ Replaceable(parsed.hsCode8))
          THEN ClassificationError("openai", "replace is not a function")
          ELSE ParsedClassification("openai", parsed)

\* the inline image is sent where the image URL is expected
ZonosVariables_Bytes(zin) ==
  [name |-> IF TruthyStr(zin.productName) THEN zin.productName ELSE UNDEF,
   description |-> IF TruthyStr(zin.productDescription)
                   THEN zin.productDescription ELSE UNDEF,
   imageUrl |-> IF TruthyStr(zin.imageUrl) THEN zin.imageUrl ELSE zin.imageBase64]

\* variables.input[0]: a field is spread in only when it is truthy
ZonosVariables(zin) ==
  [name |-> IF TruthyStr(zin.productName) THEN zin.productName ELSE UNDEF,
   description |-> IF TruthyStr(zin.productDescription)
                   THEN zin.productDescription ELSE UNDEF,
   imageUrl |-> IF TruthyStr(zin.imageUrl) THEN zin.imageUrl ELSE UNDEF]

classifyWithZonos(hasKey, response) ==
  IF ~hasKey
  THEN ClassificationError("zonos", "ZONOS_API_KEY not configured")
  ELSE IF response.kind = "throw"
  THEN ClassificationError("zonos", "Unknown error")
  ELSE IF response.parsed.hsCode.t # "string"
  THEN ClassificationError("zonos", "No classification results from Zonos")
  ELSE LET hsCode == StripDots(response.parsed.hsCode.s)
       IN [provider |-> "zonos",
           hsCode |-> hsCode,
           hsCode6 |-> SliceTo(hsCode, 6),
           hsCode8 |-> IF Len(hsCode) >= 8 THEN Str(SliceTo(hsCode, 8))
                       ELSE Undefined,
           description |-> "",
           confidence |-> ConfidenceOr(response.parsed.confidence, 85),
           error |-> UNDEF,
           estimatedValueEUR |-> Undefined,
           rawResponse |-> response.parsed]

----------------------------------------------------------------------------
(* Duty adapter *)

\* the catch block returns a result without the error field
DutyError_NoError(hsCode, value, message) ==
  [provider |-> "zonos",
   hsCode |-> hsCode,
   duties |-> 0,
   vat |-> 0,
   totalLandedCost |-> value,
   breakdown |-> <<>>,
   error |-> UNDEF]

\* the catch block reports a landed cost of 0
DutyError_ZeroTotal(hsCode, value, message) ==
  [provider |-> "zonos",
   hsCode |-> hsCode,
   duties |-> 0,
   vat |-> 0,
   totalLandedCost |-> 0,
   breakdown |-> <<>>,
   error |-> message]

\* the catch block of calculateDutyWithZonos; duties and vat are the amounts
DutyError(hsCode, value, message) ==
  [provider |-> "zonos",
   hsCode |-> hsCode,
   duties |-> 0,
   vat |-> 0,
   totalLandedCost |-> value,
   breakdown |-> <<>>,
   error |-> message]

\* productValue * 0.2; the values used are multiples of 5
StandardVat(value) == (value * 20) \div 100

\* the domestic-shipment message is an error like any other
DomesticResult_AsError(hsCode, value) ==
  DutyError(hsCode, value, "Domestic shipments are not allowed")

\* intra-EU trade: no customs duties, VAT at 20%
DomesticResult(hsCode, value) ==
  [provider |-> "zonos",
   hsCode |-> hsCode,
   duties |-> 0,
   vat |-> StandardVat(value),
   totalLandedCost |-> value + StandardVat(value),
   breakdown |-> <<[type |-> "Product", amount |-> value],
                   [type |-> "VAT (Intra-EU)", amount |-> StandardVat(value)]>>,
   error |-> UNDEF]

\* the fees are left out of the breakdown
Breakdown_NoFees(value, dutiesTotal, taxesTotal, feesTotal) ==
  <<[type |-> "Product", amount |-> value]>>
    \o (IF dutiesTotal > 0
        THEN <<[type |-> "Customs Duty", amount |-> dutiesTotal]>> ELSE <<>>)
    \o (IF taxesTotal > 0
        THEN <<[type |-> "VAT/Tax", amount |-> taxesTotal]>> ELSE <<>>)

\* the product, then each of duties, taxes and fees that is above zero
Breakdown(value, dutiesTotal, taxesTotal, feesTotal) ==
  <<[type |-> "Product", amount |-> value]>>
    \o (IF dutiesTotal > 0
        THEN <<[type |-> "Customs Duty", amount |-> dutiesTotal]>> ELSE <<>>)
    \o (IF taxesTotal > 0
        THEN <<[type |-> "VAT/Tax", amount |-> taxesTotal]>> ELSE <<>>)
    \o (IF feesTotal > 0
        THEN <<[type |-> "Fees", amount |-> feesTotal]>> ELSE <<>>)

calculateDutyWithZonos(hsCode, value, hasKey, response) ==
  IF ~hasKey
  THEN [provider |-> "zonos",
        hsCode |-> hsCode,
        duties |-> 0,
        vat |-> 0,
        totalLandedCost |-> value,
        breakdown |-> <<>>,
        error |-> "ZONOS_API_KEY not configured"]
  ELSE IF response.kind = "throw"
  THEN DutyError(hsCode, value, "Unknown error")
  ELSE IF response.domestic
  THEN DomesticResult(hsCode, value)
  ELSE IF ~response.results
  THEN DutyError(hsCode, value, "No landed cost result from Zonos")
  ELSE [provider |-> "zonos",
        hsCode |-> hsCode,
        duties |-> response.dutiesTotal,
        vat |-> response.taxesTotal,
        totalLandedCost |-> value + response.dutiesTotal + response.taxesTotal
                              + response.feesTotal,
        breakdown |-> Breakdown(value, response.dutiesTotal,
                                response.taxesTotal, response.feesTotal),
        error |-> UNDEF]

----------------------------------------------------------------------------
(* runComparison: the pure parts *)

\* const input: ClassificationInput = { imageBase64: request.imageBase64, ... }
InputOf(req) ==
  [imageBase64 |-> req.imageBase64,
   imageUrl |-> req.imageUrl,
   productName |-> req.productName,
   productDescription |-> req.productDescription]

\* the call is started and not awaited
AfterAnthropicIssued_NoAwait == "step2"

\* the await on classifyWithAnthropic: runComparison is suspended
AfterAnthropicIssued == "await_anthropic"

\* (classifications.anthropic?.rawResponse)?.productIdentified
AnthropicProduct(cls) ==
  IF "anthropic" \in DOMAIN cls /\ cls["anthropic"].rawResponse # Undefined
  THEN cls["anthropic"].rawResponse.productIdentified
  ELSE UNDEF

\* classifications.anthropic?.description
AnthropicDesc(cls) ==
  IF "anthropic" \in DOMAIN cls THEN cls["anthropic"].description ELSE UNDEF

\* substitution decided on the product name alone
DeriveZonosInput_NameOnly(inp, cls) ==
  IF ~TruthyStr(inp.productName)
  THEN [inp EXCEPT
          !.productName = IF TruthyStr(AnthropicProduct(cls))
                          THEN AnthropicProduct(cls) ELSE @,
          !.productDescription = IF TruthyStr(AnthropicDesc(cls))
                                 THEN AnthropicDesc(cls) ELSE @]
  ELSE inp

\* const zonosInput = { ...input } and the two conditional assignments
DeriveZonosInput(inp, cls) ==
  LET hasImageUrl == TruthyStr(inp.imageUrl)
      hasProductName == TruthyStr(inp.productName)
      hasProductDescription == TruthyStr(inp.productDescription)
  IN IF ~hasImageUrl /\ ~hasProductName /\ ~hasProductDescription
     THEN [inp EXCEPT
             !.productName = IF TruthyStr(AnthropicProduct(cls))
                             THEN AnthropicProduct(cls) ELSE @,
             !.productDescription = IF TruthyStr(AnthropicDesc(cls))
                                    THEN AnthropicDesc(cls) ELSE @]
     ELSE inp

\* zonosInput = input, an alias: the assignments reach input
InputAfterStep2_Alias(inp, cls) == DeriveZonosInput(inp, cls)

\* what `input` holds after step 2: zonosInput is a copy ({ ...input }), so
\* the assignments to zonosInput do not reach input
InputAfterStep2(inp, cls) == inp

\* Step 3: [productValue, isEstimatedValue]
ResolveProductValue(req, cls) ==
  LET hasAnthropic == "anthropic" \in DOMAIN cls
      first ==
        IF /\ ~Truthy(req.productValue)
           /\ hasAnthropic
           /\ Truthy(cls["anthropic"].estimatedValueEUR)
        THEN [productValue |-> cls["anthropic"].estimatedValueEUR,
              isEstimatedValue |-> TRUE]
        ELSE [productValue |-> req.productValue, isEstimatedValue |-> FALSE]
      rawValue ==
        IF hasAnthropic /\ cls["anthropic"].rawResponse # Undefined
        THEN cls["anthropic"].rawResponse.estimatedValueEUR
        ELSE Undefined
      parsed == IF rawValue.t = "string" THEN parseFloat(rawValue.s) ELSE NaN
  IN IF /\ ~Truthy(first.productValue)
        /\ hasAnthropic
        /\ cls["anthropic"].rawResponse # Undefined
     THEN IF rawValue.t = "number" /\ rawValue.v > 0
          THEN [productValue |-> rawValue, isEstimatedValue |-> TRUE]
          ELSE IF rawValue.t = "string" /\ parsed # NaN /\ GreaterThanZero(parsed)
          THEN [productValue |-> parsed, isEstimatedValue |-> TRUE]
          ELSE first
     ELSE first

\* if (productValue && productValue > 0)
DutyPhaseRuns(value) == Truthy(value) /\ GreaterThanZero(value)

\* classification?.hsCode && !classification.error
Usable(cls, p) ==
  /\ p \in DOMAIN cls
  /\ cls[p].hsCode # <<>>
  /\ ~TruthyStr(cls[p].error)

\* every call is made with the code of the first usable provider
OwnDutyCalls_FirstCode(cls) ==
  LET kept == SelectSeq(ProviderOrder, LAMBDA p : Usable(cls, p))
  IN [i \in DOMAIN kept |-> [provider |-> kept[i], hsCode |-> cls[kept[1]].hsCode]]

\* the calls pushed by the loop over the three providers
OwnDutyCalls(cls) ==
  LET kept == SelectSeq(ProviderOrder, LAMBDA p : Usable(cls, p))
  IN [i \in DOMAIN kept |-> [provider |-> kept[i], hsCode |-> cls[kept[i]].hsCode]]

\* no extra call is made
FallbackDutyCalls_None(cls, own) == <<>>

\* the extra "zonos" call made with Anthropic's code
FallbackDutyCalls(cls, own) ==
  IF /\ \/ "zonos" \notin DOMAIN cls
        \/ cls["zonos"].hsCode = <<>>
        \/ TruthyStr(cls["zonos"].error)
     /\ Usable(cls, "anthropic")
     /\ "zonos" \notin {own[i].provider : i \in DOMAIN own}
  THEN <<[provider |-> "zonos", hsCode |-> cls["anthropic"].hsCode]>>
  ELSE <<>>

DutyPlan(cls) == OwnDutyCalls(cls) \o FallbackDutyCalls(cls, OwnDutyCalls(cls))

\* every result is stored under dutyProviders[0]
RECURSIVE AssignDuties_FirstKey(_, _, _, _)
AssignDuties_FirstKey(map, provs, results, i) ==
  IF i > Len(results)
  THEN map
  ELSE AssignDuties_FirstKey((provs[1] :> results[i]) @@ map, provs, results, i + 1)

\* for (let i = 0; ...) dutyCalculations[dutyProviders[i]] = dutyResults[i]
RECURSIVE AssignDuties(_, _, _, _)
AssignDuties(map, provs, results, i) ==
  IF i > Len(results)
  THEN map
  ELSE AssignDuties((provs[i] :> results[i]) @@ map, provs, results, i + 1)

----------------------------------------------------------------------------
(* analyzeResults, calculateProviderScore, generateAnalysisNotes *)

Bool(b) == [t |-> "boolean", v |-> b]

\* classifications[p], undefined when p is not a key
ResultOf(cls, p) == IF p \in DOMAIN cls THEN cls[p] ELSE Undefined

\* a?.f === b?.f, where f is a field every result carries as a string:
\* undefined === undefined is true, undefined === 'x' is false
StrictEqual(cls, a, b, f) ==
  IF a \in DOMAIN cls /\ b \in DOMAIN cls
  THEN Bool(cls[a][f] = cls[b][f])
  ELSE Bool(a \notin DOMAIN cls /\ b \notin DOMAIN cls)

HsCodeMatch(cls) ==
  [anthropicVsZonos |-> StrictEqual(cls, "anthropic", "zonos", "hsCode"),
   openaiVsZonos |-> StrictEqual(cls, "openai", "zonos", "hsCode"),
   anthropicVsOpenai |-> StrictEqual(cls, "anthropic", "openai", "hsCode"),
   hs6Match |->
     [anthropicVsZonos |-> StrictEqual(cls, "anthropic", "zonos", "hsCode6"),
      openaiVsZonos |-> StrictEqual(cls, "openai", "zonos", "hsCode6"),
      anthropicVsOpenai |-> StrictEqual(cls, "anthropic", "openai", "hsCode6")]]

\* if (x?.confidence) confidenceScores.x = x.confidence
ConfidenceScores(cls) ==
  [p \in {q \in DOMAIN cls : cls[q].confidence # 0} |-> cls[p].confidence]

Abs(n) == IF n < 0 THEN 0 - n ELSE n

\* dutyCalculations.p?.totalLandedCost
LandedCostOf(map, p) ==
  IF p \in DOMAIN map /\ map[p] # Undefined THEN map[p].totalLandedCost ELSE 0

\* a pair gets a difference when both landed costs are truthy
DutyDifference(duties) ==
  IF ~duties.defined
  THEN [defined |-> FALSE, map |-> <<>>]
  ELSE LET cost(p) == LandedCostOf(duties.map, p)
           pairs == {<<"anthropicVsZonos", "anthropic", "zonos">>,
                     <<"openaiVsZonos", "openai", "zonos">>,
                     <<"anthropicVsOpenai", "anthropic", "openai">>}
           kept == {pr \in pairs : cost(pr[2]) # 0 /\ cost(pr[3]) # 0}
       IN [defined |-> TRUE,
           map |-> [k \in {pr[1] : pr \in kept} |->
                      LET pr == CHOOSE x \in kept : x[1] = k
                      IN Abs(cost(pr[2]) - cost(pr[3]))]]

\* the confidence is added whatever the result
calculateProviderScore_NoErrorTest(result, zonos, exactMatch, hs6Match) ==
  IF result = Undefined
  THEN 0
  ELSE (IF exactMatch THEN 300 ELSE IF hs6Match THEN 200 ELSE 0) + result.confidence

calculateProviderScore(result, zonos, exactMatch, hs6Match) ==
  IF result = Undefined \/ TruthyStr(result.error)
  THEN 0
  ELSE (IF exactMatch THEN 300 ELSE IF hs6Match THEN 200 ELSE 0) + result.confidence

Winner(anthropicScore, openaiScore) ==
  IF anthropicScore > openaiScore THEN "anthropic"
  ELSE IF openaiScore > anthropicScore THEN "openai"
  ELSE IF anthropicScore = openaiScore /\ anthropicScore > 0 THEN "tie"
  ELSE UNDEF

\* the sentences of the notes, in order; the amount printed in the duty
\* sentence is left out
generateAnalysisNotes(cls, hsCodeMatch, dutyDifference) ==
  LET matches ==
        (IF hsCodeMatch.anthropicVsZonos.v THEN <<"Anthropic matches Zonos">> ELSE <<>>)
        \o (IF hsCodeMatch.openaiVsZonos.v THEN <<"OpenAI matches Zonos">> ELSE <<>>)
        \o (IF hsCodeMatch.anthropicVsOpenai.v THEN <<"Anthropic matches OpenAI">> ELSE <<>>)
      codes ==
        IF hsCodeMatch.anthropicVsZonos.v /\ hsCodeMatch.openaiVsZonos.v
        THEN <<"All providers returned the same HS code.">>
        ELSE IF /\ hsCodeMatch.hs6Match.anthropicVsZonos.v
                /\ hsCodeMatch.hs6Match.openaiVsZonos.v
        THEN <<"All providers agree on HS6 (first 6 digits), differ on full code.">>
        ELSE IF matches # <<>>
        THEN matches
        ELSE <<"All providers returned different HS codes.">>
      diff(k) == IF k \in DOMAIN dutyDifference.map THEN dutyDifference.map[k] ELSE 0
      maxDiff == IF diff("anthropicVsZonos") > diff("openaiVsZonos")
                 THEN diff("anthropicVsZonos") ELSE diff("openaiVsZonos")
      duty ==
        IF ~dutyDifference.defined THEN <<>>
        ELSE IF maxDiff > 50 THEN <<"Significant duty difference detected">>
        ELSE IF maxDiff > 0 THEN <<"Minor duty difference">>
        ELSE <<>>
      conf(p) == IF p \in DOMAIN cls THEN cls[p].confidence ELSE 0
      confidence ==
        IF Abs(conf("anthropic") - conf("openai")) > 20
        THEN IF conf("anthropic") > conf("openai")
             THEN <<"Anthropic has notably higher confidence.">>
             ELSE <<"OpenAI has notably higher confidence.">>
        ELSE <<>>
  IN codes \o duty \o confidence

analyzeResults(cls, duties) ==
  LET hsCodeMatch == HsCodeMatch(cls)
      dutyDifference == DutyDifference(duties)
      anthropicScore ==
        calculateProviderScore(ResultOf(cls, "anthropic"), ResultOf(cls, "zonos"),
                               hsCodeMatch.anthropicVsZonos.v,
                               hsCodeMatch.hs6Match.anthropicVsZonos.v)
      openaiScore ==
        calculateProviderScore(ResultOf(cls, "openai"), ResultOf(cls, "zonos"),
                               hsCodeMatch.openaiVsZonos.v,
                               hsCodeMatch.hs6Match.openaiVsZonos.v)
  IN [hsCodeMatch |-> hsCodeMatch,
      confidenceScores |-> ConfidenceScores(cls),
      dutyDifference |-> dutyDifference,
      winner |-> Winner(anthropicScore, openaiScore),
      notes |-> generateAnalysisNotes(cls, hsCodeMatch, dutyDifference)]

\* const result: ComparisonResult = { id, timestamp, input, ..., analysis }
ComparisonResultOf(key, stamp, inp, value, estimated, cls, duties) ==
  [id |-> key,
   timestamp |-> stamp,
   input |-> inp,
   productValue |-> value,
   isEstimatedValue |-> estimated,
   classifications |-> cls,
   dutyCalculations |-> duties,
   analysis |-> analyzeResults(cls, duties)]

----------------------------------------------------------------------------
(* The state machine *)

\* the first call to settle resolves the join
PromiseAllResolved_Race(promises) ==
  \/ promises = <<>>
  \/ \E i \in DOMAIN promises : promises[i].status = "done"

\* await Promise.all(dutyPromises) resumes once every promise has settled
PromiseAllResolved(promises) ==
  \A i \in DOMAIN promises : promises[i].status = "done"

NoCall == [status |-> "none", arg |-> Undefined]

\* without its API key an adapter returns before any network call is made
NoResponse == [kind |-> "none"]

ResponsesFor(key, responses) == IF key \in env THEN responses ELSE {NoResponse}

\* an adapter without its API key returns before it builds a request; with
\* the key it sends one request to its backend
RequestsSent(sent, backend, hasKey) ==
  IF hasKey THEN sent \cup {backend} ELSE sent

\* no request has been posted
NoExchange == [body |-> Undefined, status |-> 0]

\* Map.set keeps the place of a key it already holds, a new key goes last
MapKeysAfterSet(keys, key) ==
  IF \E i \in DOMAIN keys : keys[i] = key THEN keys ELSE Append(keys, key)

\* the voice hooks as mounted: nothing heard, nothing pending
VoiceIdle ==
  /\ hasVoice = TRUE
  /\ mode = "idle"
  /\ isProcessingRef = FALSE
  /\ speechPc = "none"
  /\ startTimers = 0
  /\ pendingStarts = 0
  /\ isActiveRef = FALSE
  /\ recognizer = "off"
  /\ absoluteTimerRef = FALSE
  /\ silenceTimerRef = FALSE
  /\ taps = 0

\* the aggregate of a comparison that completed before this one
EarlierResult ==
  ComparisonResultOf(0, toISOString(StartTime),
                     [imageBase64 |-> UNDEF, imageUrl |-> UNDEF,
                      productName |-> "handbag", productDescription |-> UNDEF],
                     Undefined, FALSE, <<>>, [defined |-> FALSE, map |-> <<>>])

Init ==
  /\ env \in SUBSET Providers
  /\ pc = "idle"
  /\ request = Undefined
  /\ id = 0
  /\ input = Undefined
  /\ calls = [p \in Providers |-> NoCall]
  /\ zonosRequest = Undefined
  /\ fetches = {}
  /\ classifications = <<>>
  /\ productValue = Undefined
  /\ isEstimatedValue = FALSE
  /\ dutyProviders = <<>>
  /\ dutyPromises = <<>>
  /\ dutyCalculations = [defined |-> FALSE, map |-> <<>>]
  /\ comparisonResults = <<>>
  /\ timestamp = Undefined
  /\ keyOrder = <<>>
  /\ runs = <<>>
  /\ httpExchange = NoExchange
  /\ VoiceIdle

\* entry of runComparison: id, timestamp, input
Begin(req, now) ==
  /\ pc = "idle"
  /\ request' = req
  /\ timestamp' = toISOString(now)
  /\ id' = Cardinality(DOMAIN comparisonResults) + 1
  /\ input' = InputOf(req)
  /\ pc' = "step1"
  /\ UNCHANGED <<env, fetches, calls, zonosRequest, classifications, productValue,
                 isEstimatedValue, dutyProviders, dutyPromises,
                 dutyCalculations, comparisonResults>>
  /\ UNCHANGED <<keyOrder, runs, httpExchange, voiceVars>>

\* Step 1: classifyWithAnthropic(input) is called if requested
Step1 ==
  /\ pc = "step1"
  /\ IF "anthropic" \in request.providers
     THEN /\ calls' = [calls EXCEPT !["anthropic"] =
                         [status |-> "inflight", arg |-> input]]
          /\ pc' = AfterAnthropicIssued
     ELSE /\ pc' = "step2"
          /\ UNCHANGED calls
  /\ fetches' = IF "anthropic" \in request.providers
                THEN RequestsSent(fetches, "anthropic", "anthropic" \in env)
                ELSE fetches
  /\ UNCHANGED <<env, request, id, input, zonosRequest, classifications,
                 productValue, isEstimatedValue, dutyProviders, dutyPromises,
                 dutyCalculations, comparisonResults>>
  /\ UNCHANGED <<timestamp, keyOrder, runs, httpExchange, voiceVars>>

\* classifyWithAnthropic returns; runComparison resumes
AnthropicReturn ==
  /\ pc = "await_anthropic"
  /\ calls["anthropic"].status = "inflight"
  /\ \E response \in ResponsesFor("anthropic", AnthropicResponses) :
       classifications' =
         ("anthropic" :> classifyWithAnthropic("anthropic" \in env, response))
           @@ classifications
  /\ calls' = [calls EXCEPT !["anthropic"].status = "done"]
  /\ pc' = "step2"
  /\ UNCHANGED <<env, fetches, request, id, input, zonosRequest, productValue,
                 isEstimatedValue, dutyProviders, dutyPromises,
                 dutyCalculations, comparisonResults>>
  /\ UNCHANGED <<timestamp, keyOrder, runs, httpExchange, voiceVars>>

\* Step 2: zonosInput is derived and classifyWithZonos(zonosInput) is called;
\* with an API key the adapter sends its request before it first suspends
Step2 ==
  /\ pc = "step2"
  /\ IF "zonos" \in request.providers
     THEN LET zonosInput == DeriveZonosInput(input, classifications)
          IN /\ input' = InputAfterStep2(input, classifications)
             /\ calls' = [calls EXCEPT !["zonos"] =
                            [status |-> "inflight", arg |-> zonosInput]]
             /\ zonosRequest' = IF "zonos" \in env
                                THEN ZonosVariables(zonosInput)
                                ELSE Undefined
             /\ pc' = "await_zonos"
     ELSE /\ pc' = "openai"
          /\ UNCHANGED <<input, calls, zonosRequest>>
  /\ fetches' = IF "zonos" \in request.providers
                THEN RequestsSent(fetches, "zonos", "zonos" \in env)
                ELSE fetches
  /\ UNCHANGED <<env, request, id, classifications, productValue,
                 isEstimatedValue, dutyProviders, dutyPromises,
                 dutyCalculations, comparisonResults>>
  /\ UNCHANGED <<timestamp, keyOrder, runs, httpExchange, voiceVars>>

ZonosReturn ==
  /\ pc = "await_zonos"
  /\ calls["zonos"].status = "inflight"
  /\ \E response \in ResponsesFor("zonos", ZonosResponses) :
       classifications' =
         ("zonos" :> classifyWithZonos("zonos" \in env, response))
           @@ classifications
  /\ calls' = [calls EXCEPT !["zonos"].status = "done"]
  /\ pc' = "openai"
  /\ UNCHANGED <<env, fetches, request, id, input, zonosRequest, productValue,
                 isEstimatedValue, dutyProviders, dutyPromises,
                 dutyCalculations, comparisonResults>>
  /\ UNCHANGED <<timestamp, keyOrder, runs, httpExchange, voiceVars>>

\* classifyWithOpenAI(input) is called if requested
StepOpenAI ==
  /\ pc = "openai"
  /\ IF "openai" \in request.providers
     THEN /\ calls' = [calls EXCEPT !["openai"] =
                         [status |-> "inflight", arg |-> input]]
          /\ pc' = "await_openai"
     ELSE /\ pc' = "step3"
          /\ UNCHANGED calls
  /\ fetches' = IF "openai" \in request.providers
                THEN RequestsSent(fetches, "openai", "openai" \in env)
                ELSE fetches
  /\ UNCHANGED <<env, request, id, input, zonosRequest, classifications,
                 productValue, isEstimatedValue, dutyProviders, dutyPromises,
                 dutyCalculations, comparisonResults>>
  /\ UNCHANGED <<timestamp, keyOrder, runs, httpExchange, voiceVars>>

OpenAIReturn ==
  /\ pc = "await_openai"
  /\ calls["openai"].status = "inflight"
  /\ \E response \in ResponsesFor("openai", OpenAIResponses) :
       classifications' =
         ("openai" :> classifyWithOpenAI("openai" \in env, response))
           @@ classifications
  /\ calls' = [calls EXCEPT !["openai"].status = "done"]
  /\ pc' = "step3"
  /\ UNCHANGED <<env, fetches, request, id, input, zonosRequest, productValue,
                 isEstimatedValue, dutyProviders, dutyPromises,
                 dutyCalculations, comparisonResults>>
  /\ UNCHANGED <<timestamp, keyOrder, runs, httpExchange, voiceVars>>

\* Step 3: determine product value
Step3 ==
  /\ pc = "step3"
  /\ LET resolved == ResolveProductValue(request, classifications)
     IN /\ productValue' = resolved.productValue
        /\ isEstimatedValue' = resolved.isEstimatedValue
  /\ pc' = "step4"
  /\ UNCHANGED <<env, fetches, request, id, input, calls, zonosRequest,
                 classifications, dutyProviders, dutyPromises,
                 dutyCalculations, comparisonResults>>
  /\ UNCHANGED <<timestamp, keyOrder, runs, httpExchange, voiceVars>>

\* Step 4: every duty call is started; none is awaited yet
Step4 ==
  /\ pc = "step4"
  /\ IF DutyPhaseRuns(productValue)
     THEN LET plan == DutyPlan(classifications)
          IN /\ dutyCalculations' = [defined |-> TRUE, map |-> <<>>]
             /\ dutyProviders' = [i \in DOMAIN plan |-> plan[i].provider]
             /\ dutyPromises' =
                  [i \in DOMAIN plan |->
                     [provider |-> plan[i].provider,
                      hsCode |-> plan[i].hsCode,
                      productValue |-> productValue.v,
                      status |-> "inflight",
                      response |-> Undefined,
                      result |-> Undefined]]
     ELSE UNCHANGED <<dutyCalculations, dutyProviders, dutyPromises>>
  /\ pc' = "await_duty"
  /\ fetches' = IF DutyPhaseRuns(productValue) /\ DutyPlan(classifications) # <<>>
                THEN RequestsSent(fetches, "landedCost", "zonos" \in env)
                ELSE fetches
  /\ UNCHANGED <<env, request, id, input, calls, zonosRequest,
                 classifications, productValue, isEstimatedValue,
                 comparisonResults>>
  /\ UNCHANGED <<timestamp, keyOrder, runs, httpExchange, voiceVars>>

\* one calculateDutyWithZonos(...).then(duty => ({ ...duty, provider }))
\* settles
DutyReturn(i) ==
  /\ pc = "await_duty"
  /\ i \in DOMAIN dutyPromises
  /\ dutyPromises[i].status = "inflight"
  /\ \E response \in ResponsesFor("zonos", DutyResponses) :
       LET duty == calculateDutyWithZonos(dutyPromises[i].hsCode,
                                          dutyPromises[i].productValue,
                                          "zonos" \in env, response)
       IN dutyPromises' =
            [dutyPromises EXCEPT
               ![i].status = "done",
               ![i].response = response,
               ![i].result = [duty EXCEPT !.provider = dutyPromises[i].provider]]
  /\ UNCHANGED <<env, fetches, pc, request, id, input, calls, zonosRequest,
                 classifications, productValue, isEstimatedValue,
                 dutyProviders, dutyCalculations, comparisonResults>>
  /\ UNCHANGED <<timestamp, keyOrder, runs, httpExchange, voiceVars>>

\* Promise.all(dutyPromises) has resolved (or there was no duty phase): the
\* results are stored by index, the aggregate is built and put in the store
Persist ==
  /\ pc = "await_duty"
  /\ PromiseAllResolved(dutyPromises)
  /\ LET dutyResults == [i \in DOMAIN dutyPromises |-> dutyPromises[i].result]
     IN \E duties \in
             {IF dutyCalculations.defined
              THEN [dutyCalculations EXCEPT
                      !.map = AssignDuties(@, dutyProviders, dutyResults, 1)]
              ELSE dutyCalculations} :
          /\ dutyCalculations' = duties
          /\ comparisonResults' =
               (id :> ComparisonResultOf(id, timestamp, input, productValue,
                                         isEstimatedValue, classifications,
                                         duties))
                 @@ comparisonResults
  /\ keyOrder' = MapKeysAfterSet(keyOrder, id)
  /\ pc' = "done"
  /\ UNCHANGED <<env, fetches, request, id, input, calls, zonosRequest,
                 classifications, productValue, isEstimatedValue,
                 dutyProviders, dutyPromises>>
  /\ UNCHANGED <<timestamp, runs, httpExchange, voiceVars>>

\* the aggregate is put in the store as far as it has got
ResultsOnReject_Partial(store, key, partial) == (key :> partial) @@ store

\* runComparison has no try, catch or finally: a rejection leaves through
\* the await, and comparisonResults.set is never reached
ResultsOnReject(store, key, partial) == store

\* an awaited adapter promise rejects: the await throws, runComparison
\* rejects and the route answers 500; Promise.all rejects as soon as one of
\* its pending promises does
AdapterRejects ==
  /\ \/ pc \in {"await_anthropic", "await_zonos", "await_openai"}
     \/ /\ pc = "await_duty"
        /\ \E i \in DOMAIN dutyPromises : dutyPromises[i].status = "inflight"
  /\ pc' = "failed"
  /\ comparisonResults' =
       ResultsOnReject(comparisonResults, id,
                       ComparisonResultOf(id, timestamp, input, productValue,
                                          isEstimatedValue, classifications,
                                          dutyCalculations))
  /\ UNCHANGED <<env, request, id, input, calls, zonosRequest, fetches,
                 classifications, productValue, isEstimatedValue,
                 dutyProviders, dutyPromises, dutyCalculations>>
  /\ UNCHANGED <<timestamp, keyOrder, runs, httpExchange, voiceVars>>

Next ==
  \/ \E req \in Requests : Begin(req, StartTime)
  \/ Step1
  \/ AnthropicReturn
  \/ Step2
  \/ ZonosReturn
  \/ StepOpenAI
  \/ OpenAIReturn
  \/ Step3
  \/ Step4
  \/ \E i \in 1..3 : DutyReturn(i)
  \/ Persist

Spec == Init /\ [][Next]_vars

----------------------------------------------------------------------------
(* runComparison when an adapter promise rejects.  The adapters as written  *)
(* settle every failure into an error result, so Spec has no such step;     *)
(* this specification adds it, to see what the orchestrator does with it.   *)
(* The store already holds the aggregate of an earlier comparison.          *)

InitRejecting ==
  /\ env \in SUBSET Providers
  /\ pc = "idle"
  /\ request = Undefined
  /\ id = 0
  /\ input = Undefined
  /\ calls = [p \in Providers |-> NoCall]
  /\ zonosRequest = Undefined
  /\ fetches = {}
  /\ classifications = <<>>
  /\ productValue = Undefined
  /\ isEstimatedValue = FALSE
  /\ dutyProviders = <<>>
  /\ dutyPromises = <<>>
  /\ dutyCalculations = [defined |-> FALSE, map |-> <<>>]
  /\ comparisonResults = (0 :> EarlierResult)
  /\ timestamp = Undefined
  /\ keyOrder = <<0>>
  /\ runs = <<>>
  /\ httpExchange = NoExchange
  /\ VoiceIdle

NextRejecting == Next \/ AdapterRejects

SpecRejecting == InitRejecting /\ [][NextRejecting]_vars

----------------------------------------------------------------------------
(* One adapter call on its own, with every shape of reply.  A reply of kind *)
(* "throw" is a transport failure, a status that is not 2xx, or a body in   *)
(* which no JSON object is found or that JSON.parse rejects.                *)

Code1Long == <<"4", "2", "0", "2", ".", "2", "1", ".", "0", "0", ".", "1", "0">>
Family1 == <<"4", "2", "0", "2", ".", "2", "1">>
Family2 == <<"6", "4", "0", "3", ".", "9", "9">>
Cn1 == <<"4", "2", "0", "2", ".", "2", "1", ".", "0", "0">>
Cn2 == <<"6", "4", "0", "3", ".", "9", "9", ".", "0", "0">>

\* the JSON object a language model may answer with: a field may be missing,
\* the code may come as a number, hsCode6 and hsCode8 need not fit hsCode
WidePayloads ==
  [hsCode : {Undefined, Num(420221), Str(Code1), Str(Code1Long)},
   hsCode6 : {Undefined, Str(<<>>), Str(Family1), Str(Family2)},
   hsCode8 : {Undefined, Str(Cn1), Str(Cn2)},
   confidence : {Undefined, Num(0), Num(90)},
   description : {"Handbags of leather"},
   productIdentified : {"leather handbag"},
   estimatedValueEUR : {Undefined}]

WideZonosPayloads ==
  [hsCode : {Undefined, Str(<<>>), Str(<<"4", "2", "0", "2">>), Str(Code1),
             Str(Cn1), Str(Code1Long)},
   confidence : {Undefined, Num(70)}]

WideResponses(p) ==
  {[kind |-> "throw"]}
    \cup {[kind |-> "json", parsed |-> x] :
            x \in IF p = "zonos" THEN WideZonosPayloads ELSE WidePayloads}

\* the adapter of provider p
Classify(p, hasKey, response) ==
  CASE p = "anthropic" -> classifyWithAnthropic(hasKey, response)
    [] p = "openai" -> classifyWithOpenAI(hasKey, response)
    [] p = "zonos" -> classifyWithZonos(hasKey, response)

AdapterInputs ==
  {InputOf(r) : r \in {q \in Requests : q.productValue = Undefined
                                         /\ q.providers = Providers
                                         /\ q.productDescription = UNDEF
                                         /\ q.productName # ""}}

\* the adapter is called: without its key it has its result at once, with
\* the key it sends its request and waits for the reply
CallAdapter(p, inp) ==
  /\ pc = "idle"
  /\ input' = inp
  /\ calls' = [calls EXCEPT ![p] = [status |-> "inflight", arg |-> inp,
                                     response |-> NoResponse]]
  /\ fetches' = RequestsSent(fetches, p, p \in env)
  /\ zonosRequest' = IF p = "zonos" /\ p \in env
                     THEN ZonosVariables(inp) ELSE zonosRequest
  /\ pc' = "adapter"
  /\ UNCHANGED <<env, request, id, classifications, productValue,
                 isEstimatedValue, dutyProviders, dutyPromises,
                 dutyCalculations, comparisonResults>>
  /\ UNCHANGED <<timestamp, keyOrder, runs, httpExchange, voiceVars>>

\* the adapter returns its ClassificationResult
AdapterReturns(p) ==
  /\ pc = "adapter"
  /\ calls[p].status = "inflight"
  /\ \E response \in ResponsesFor(p, WideResponses(p)) :
       /\ classifications' = (p :> Classify(p, p \in env, response))
       /\ calls' = [calls EXCEPT ![p].status = "done", ![p].response = response]
  /\ pc' = "returned"
  /\ UNCHANGED <<env, request, id, input, zonosRequest, fetches, productValue,
                 isEstimatedValue, dutyProviders, dutyPromises,
                 dutyCalculations, comparisonResults>>
  /\ UNCHANGED <<timestamp, keyOrder, runs, httpExchange, voiceVars>>

NextAdapters ==
  \/ \E p \in Providers, inp \in AdapterInputs : CallAdapter(p, inp)
  \/ \E p \in Providers : AdapterReturns(p)

SpecAdapters == Init /\ [][NextAdapters]_vars

----------------------------------------------------------------------------
(* One call of the duty adapter on its own, with every shape of reply *)

\* product values: multiples of 5, so that 20% of each is a whole number
DutyValues == {5, 150, 250}

WideDutyResponses ==
  {[kind |-> "throw"]}
    \cup [kind : {"json"}, domestic : BOOLEAN, results : BOOLEAN,
          dutiesTotal : {0, 30}, taxesTotal : {0, 56}, feesTotal : {0, 4}]

\* calculateDutyWithZonos(hsCode, productValue, ...) is called
CallDuty(hsCode, value) ==
  /\ pc = "idle"
  /\ dutyProviders' = <<"zonos">>
  /\ dutyPromises' = <<[provider |-> "zonos",
                        hsCode |-> hsCode,
                        productValue |-> value,
                        status |-> "inflight",
                        response |-> Undefined,
                        result |-> Undefined]>>
  /\ fetches' = RequestsSent(fetches, "landedCost", "zonos" \in env)
  /\ pc' = "duty"
  /\ UNCHANGED <<env, request, id, input, calls, zonosRequest, classifications,
                 productValue, isEstimatedValue, dutyCalculations,
                 comparisonResults>>
  /\ UNCHANGED <<timestamp, keyOrder, runs, httpExchange, voiceVars>>

\* calculateDutyWithZonos returns its DutyCalculation
DutyReturns ==
  /\ pc = "duty"
  /\ \E response \in ResponsesFor("zonos", WideDutyResponses) :
       dutyPromises' =
         [dutyPromises EXCEPT
            ![1].status = "done",
            ![1].response = response,
            ![1].result = calculateDutyWithZonos(dutyPromises[1].hsCode,
                                                 dutyPromises[1].productValue,
                                                 "zonos" \in env, response)]
  /\ pc' = "duty_returned"
  /\ UNCHANGED <<env, request, id, input, calls, zonosRequest, fetches,
                 classifications, productValue, isEstimatedValue,
                 dutyProviders, dutyCalculations, comparisonResults>>
  /\ UNCHANGED <<timestamp, keyOrder, runs, httpExchange, voiceVars>>

NextDuty ==
  \/ \E hsCode \in {StripDots(Code1), StripDots(Code2)}, value \in DutyValues :
       CallDuty(hsCode, value)
  \/ DutyReturns

SpecDuty == Init /\ [][NextDuty]_vars

----------------------------------------------------------------------------
(* Properties: the duty adapter *)

DutyReturned == pc = "duty_returned"

DutyCall == dutyPromises[1]

\* the call failed: no key, a transport error or a status that is not 2xx or
\* a body that is not JSON, or a reply without a landed cost result
DutyFailed ==
  \/ "zonos" \notin env
  \/ DutyCall.response.kind = "throw"
  \/ /\ DutyCall.response.kind = "json"
     /\ ~DutyCall.response.domestic
     /\ ~DutyCall.response.results

\* the reply reports a domestic shipment
DutyDomestic ==
  /\ "zonos" \in env
  /\ DutyCall.response.kind = "json"
  /\ DutyCall.response.domestic

RECURSIVE SumAmounts(_)
SumAmounts(items) ==
  IF items = <<>> THEN 0 ELSE Head(items).amount + SumAmounts(Tail(items))

\* C14: when calculateDutyWithZonos fails for any reason it returns a
\* DutyResult with an error set, duty amount 0, VAT amount 0 and
\* totalLandedCost equal to the product value passed in
C14_DutyFailureResult ==
  (DutyReturned /\ DutyFailed) =>
    /\ DutyCall.status = "done"
    /\ DutyCall.result.provider = "zonos"
    /\ DutyCall.result.hsCode = DutyCall.hsCode
    /\ DutyCall.result.error \notin {UNDEF, ""}
    /\ DutyCall.result.duties = 0
    /\ DutyCall.result.vat = 0
    /\ DutyCall.result.totalLandedCost = DutyCall.productValue

\* a reply without a landed cost result
C14_Witness ==
  /\ DutyReturned
  /\ "zonos" \in env
  /\ DutyCall.response.kind = "json"
  /\ ~DutyCall.response.domestic
  /\ ~DutyCall.response.results
  /\ DutyCall.response.dutiesTotal = 30
  /\ DutyCall.result.error = "No landed cost result from Zonos"
  /\ DutyCall.result.totalLandedCost = 150

----------------------------------------------------------------------------
(* analyzeResults on its own: the classifications are results the adapters  *)
(* return, for every set of requested providers                             *)

AnalysisPayloads ==
  [hsCode : {Undefined, Str(Code1), Str(Code1Long)},
   hsCode6 : {Undefined, Str(Family2)},
   hsCode8 : {Undefined},
   confidence : {Undefined, Num(85), Num(90)},
   description : {"Handbags of leather"},
   productIdentified : {"leather handbag"},
   estimatedValueEUR : {Undefined}]

AnalysisZonosPayloads ==
  [hsCode : {Undefined, Str(Code1), Str(Code1Long), Str(Code2)},
   confidence : {Undefined}]

\* what the adapter of p may return: without its key, on a failure, on a reply
AnalysisResults(p) ==
  {Classify(p, FALSE, NoResponse), Classify(p, TRUE, [kind |-> "throw"])}
    \cup {Classify(p, TRUE, [kind |-> "json", parsed |-> x]) :
            x \in IF p = "zonos" THEN AnalysisZonosPayloads ELSE AnalysisPayloads}

ClassificationMaps ==
  UNION {{f \in [S -> UNION {AnalysisResults(p) : p \in S}] :
            \A p \in S : f[p] \in AnalysisResults(p)} : S \in SUBSET Providers}

InitAnalysis ==
  /\ env = Providers
  /\ pc = "idle"
  /\ request = Undefined
  /\ id = 1
  /\ input = Undefined
  /\ calls = [p \in Providers |-> NoCall]
  /\ zonosRequest = Undefined
  /\ fetches = {}
  /\ classifications \in ClassificationMaps
  /\ productValue = Undefined
  /\ isEstimatedValue = FALSE
  /\ dutyProviders = <<>>
  /\ dutyPromises = <<>>
  /\ dutyCalculations = [defined |-> FALSE, map |-> <<>>]
  /\ comparisonResults = <<>>
  /\ timestamp = Undefined
  /\ keyOrder = <<>>
  /\ runs = <<>>
  /\ httpExchange = NoExchange
  /\ VoiceIdle

\* const analysis = analyzeResults(classifications, dutyCalculations), kept
\* in the aggregate
Analyze ==
  /\ pc = "idle"
  /\ comparisonResults' =
       (id :> ComparisonResultOf(id, toISOString(StartTime), input,
                                 productValue, isEstimatedValue,
                                 classifications, dutyCalculations))
         @@ comparisonResults
  /\ keyOrder' = MapKeysAfterSet(keyOrder, id)
  /\ pc' = "analyzed"
  /\ UNCHANGED <<env, request, id, input, calls, zonosRequest, fetches,
                 classifications, productValue, isEstimatedValue,
                 dutyProviders, dutyPromises, dutyCalculations>>
  /\ UNCHANGED <<timestamp, runs, httpExchange, voiceVars>>

NextAnalysis == Analyze

SpecAnalysis == InitAnalysis /\ [][NextAnalysis]_vars

----------------------------------------------------------------------------
(* Properties: the match matrix and the score *)

Analyzed == pc = "analyzed"

Analysis == comparisonResults[id].analysis

Pairs ==
  {[cell |-> "anthropicVsZonos", a |-> "anthropic", b |-> "zonos"],
   [cell |-> "openaiVsZonos", a |-> "openai", b |-> "zonos"],
   [cell |-> "anthropicVsOpenai", a |-> "anthropic", b |-> "openai"]}

\* C18: in the match matrix of every aggregate, for every provider pair, if
\* the exact-match cell is true then the family (hs6) cell is true
C18_ExactImpliesFamily ==
  Analyzed =>
    \A pr \in Pairs :
      Analysis.hsCodeMatch[pr.cell] = Bool(TRUE)
        => Analysis.hsCodeMatch.hs6Match[pr.cell] = Bool(TRUE)

\* C19: every cell of the match matrix for a pair in which a provider is
\* absent from the comparison is undefined, at the exact and at the family
\* level: neither true nor false
C19_AbsentCellsUndefined ==
  Analyzed =>
    \A pr \in Pairs :
      ~({pr.a, pr.b} \subseteq DOMAIN classifications) =>
        /\ Analysis.hsCodeMatch[pr.cell] = Undefined
        /\ Analysis.hsCodeMatch.hs6Match[pr.cell] = Undefined

\* the score analyzeResults computes for provider p of the aggregate
ScoreOf(p, cls) ==
  LET cell == IF p = "anthropic" THEN "anthropicVsZonos" ELSE "openaiVsZonos"
  IN calculateProviderScore(ResultOf(cls, p), ResultOf(cls, "zonos"),
                            HsCodeMatch(cls)[cell].v,
                            HsCodeMatch(cls).hs6Match[cell].v)

\* 3 on the same code as the structured result, else 2 on the same hs6
MatchBonus(r, cls) ==
  IF "zonos" \notin DOMAIN cls THEN 0
  ELSE IF r.hsCode = cls["zonos"].hsCode THEN 300
  ELSE IF r.hsCode6 = cls["zonos"].hsCode6 THEN 200
  ELSE 0

Confidences == {0, 50, 85, 90, 100}

\* C20: the score is matchBonus + confidence, with matchBonus 3 on exact
\* match with the structured result, else 2 on family match, else 0, and
\* the result's own confidence; it is 0 for an absent or errored result; at
\* a fixed match level it does not decrease when the confidence grows
C20_ProviderScore ==
  Analyzed =>
    \A p \in {"anthropic", "openai"} :
      IF p \notin DOMAIN classifications
      THEN ScoreOf(p, classifications) = 0
      ELSE LET r == classifications[p]
           IN /\ r.error \notin {UNDEF, ""} => ScoreOf(p, classifications) = 0
              /\ r.error = UNDEF =>
                   /\ ScoreOf(p, classifications)
                        = MatchBonus(r, classifications) + r.confidence
                   /\ \A c1, c2 \in Confidences :
                        c1 <= c2 =>
                          ScoreOf(p, [classifications EXCEPT ![p].confidence = c1])
                            <= ScoreOf(p, [classifications EXCEPT ![p].confidence = c2])

\* the reasoning result is in the family of the structured one, the openai
\* adapter failed
C20_Witness ==
  /\ Analyzed
  /\ DOMAIN classifications = Providers
  /\ classifications["anthropic"].error = UNDEF
  /\ classifications["anthropic"].hsCode # classifications["zonos"].hsCode
  /\ ScoreOf("anthropic", classifications) = 285
  /\ classifications["openai"].error = "Unknown error"
  /\ ScoreOf("openai", classifications) = 0
  /\ Analysis.winner = "anthropic"

----------------------------------------------------------------------------
(* Properties: the classification adapters *)

\* the adapter of p has returned
Returned(p) == pc = "returned" /\ calls[p].status = "done"

\* the reply the adapter of p got; NoResponse when it made no request
Reply(p) == calls[p].response

\* the reply is a JSON object of the expected shape but for its code: the
\* code is missing
CodeMissing(p) ==
  /\ Reply(p).kind = "json"
  /\ Reply(p).parsed.hsCode = Undefined

\* the reply is JSON whose code fields cannot be read as strings
CodeNotText(p) ==
  /\ Reply(p).kind = "json"
  /\ p # "zonos"
  /\ \/ Reply(p).parsed.hsCode.t = "number"
     \/ Reply(p).parsed.hsCode6.t = "number"
     \/ Reply(p).parsed.hsCode8.t = "number"

\* an error result: non-empty error, confidence 0, empty code
ErrorResult(r) ==
  /\ r.error \notin {UNDEF, ""}
  /\ r.confidence = 0
  /\ r.hsCode = <<>>
  /\ r.hsCode6 = <<>>

C17_CodeNesting ==
  \A p \in Providers :
    (Returned(p) /\ classifications[p].error = UNDEF) =>
      LET r == classifications[p]
      IN /\ r.hsCode6 = SliceTo(r.hsCode, 6)
         /\ r.hsCode8 # Undefined => SliceTo(r.hsCode8.s, 6) = r.hsCode6

----------------------------------------------------------------------------
(* Properties: sequencing and input substitution *)

Started == pc # "idle"

Requested(p) == Started /\ p \in request.providers

Issued(p) == calls[p].status # "none"

\* the request has none of imageUrl, productName, productDescription
NoTextSignal ==
  /\ ~TruthyStr(request.imageUrl)
  /\ ~TruthyStr(request.productName)
  /\ ~TruthyStr(request.productDescription)

\* the reasoning result supplies an identified product label
LabelSupplied ==
  /\ "anthropic" \in DOMAIN classifications
  /\ classifications["anthropic"].rawResponse # Undefined
  /\ TruthyStr(classifications["anthropic"].rawResponse.productIdentified)

Label == classifications["anthropic"].rawResponse.productIdentified

\* the reasoning result supplies a description
DescSupplied ==
  /\ "anthropic" \in DOMAIN classifications
  /\ TruthyStr(classifications["anthropic"].description)

\* the field values the caller submitted
Submitted ==
  [imageBase64 |-> request.imageBase64,
   imageUrl |-> request.imageUrl,
   productName |-> request.productName,
   productDescription |-> request.productDescription]

C2_Substitution ==
  (Started /\ Issued("zonos")) =>
    LET arg == calls["zonos"].arg
    IN IF NoTextSignal
       THEN /\ arg.productName = IF LabelSupplied THEN Label
                                 ELSE request.productName
            /\ arg.productDescription =
                 IF DescSupplied THEN classifications["anthropic"].description
                 ELSE request.productDescription
            /\ arg.imageBase64 = request.imageBase64
            /\ arg.imageUrl = request.imageUrl
       ELSE arg = Submitted

C2_Witness ==
  /\ Started
  /\ Issued("zonos")
  /\ NoTextSignal
  /\ LabelSupplied
  /\ DescSupplied
  /\ calls["zonos"].arg.productName = "leather handbag"
  /\ calls["zonos"].arg.productDescription = "Handbags of leather"

\* C3: the input recorded in the stored aggregate and the input passed to
\* the reasoning and openai classify calls have exactly the field values the
\* caller submitted, whether or not substitution was applied
C3_RequestNeverMutated ==
  Started =>
    /\ input = Submitted
    /\ \A p \in {"anthropic", "openai"} : Issued(p) => calls[p].arg = Submitted
    /\ \A k \in DOMAIN comparisonResults : comparisonResults[k].input = Submitted

C3_Witness ==
  /\ pc = "done"
  /\ Issued("anthropic")
  /\ Issued("openai")
  /\ Issued("zonos")
  /\ calls["zonos"].arg # Submitted
  /\ id \in DOMAIN comparisonResults

\* C4: for a request with only inline image bytes where the reasoning
\* provider identified a label, the structured classify call gets that label
\* and no field of the request sent to the structured provider holds the
\* inline image bytes
C4_LabelNotBytes ==
  (/\ Started
   /\ Issued("zonos")
   /\ TruthyStr(request.imageBase64)
   /\ NoTextSignal
   /\ LabelSupplied) =>
    /\ calls["zonos"].arg.productName = Label
    /\ "zonos" \in env =>
         /\ zonosRequest # Undefined
         /\ zonosRequest.name = Label
         /\ \A f \in DOMAIN zonosRequest : zonosRequest[f] # request.imageBase64

C4_Witness ==
  /\ Started
  /\ Issued("zonos")
  /\ TruthyStr(request.imageBase64)
  /\ NoTextSignal
  /\ LabelSupplied
  /\ "zonos" \in env
  /\ zonosRequest # Undefined
  /\ zonosRequest.name = "leather handbag"

----------------------------------------------------------------------------
(* Properties: value resolution and duty fan-out *)

Done == pc = "done"

\* the aggregate runComparison returns, as stored
Aggregate == comparisonResults[id]

\* estimatedValueEUR as the reasoning provider returned it, number or string
RawEstimate ==
  IF /\ "anthropic" \in DOMAIN classifications
     /\ classifications["anthropic"].rawResponse # Undefined
  THEN classifications["anthropic"].rawResponse.estimatedValueEUR
  ELSE Undefined

\* the estimate when it is a positive number or a string that parses to one
PositiveEstimate ==
  IF RawEstimate.t = "number" /\ RawEstimate.v > 0
  THEN RawEstimate
  ELSE IF RawEstimate.t = "string" /\ GreaterThanZero(parseFloat(RawEstimate.s))
  THEN parseFloat(RawEstimate.s)
  ELSE Undefined

\* the classification of p has a non-empty code and no error
UsableCode(p) ==
  /\ p \in DOMAIN classifications
  /\ Len(classifications[p].hsCode) > 0
  /\ classifications[p].error \in {UNDEF, ""}

\* the classification of p carries no error
NoError(p) ==
  /\ p \in DOMAIN classifications
  /\ classifications[p].error \in {UNDEF, ""}

\* the duty calls issued for provider p
DutyCallsFor(p) == {i \in DOMAIN dutyPromises : dutyProviders[i] = p}

\* exactly one duty call was issued for p, with p's own code; once the
\* aggregate exists its result is the entry under p's key
OneOwnDutyCall(p) ==
  /\ Cardinality(DutyCallsFor(p)) = 1
  /\ \A i \in DutyCallsFor(p) :
       /\ dutyPromises[i].hsCode = classifications[p].hsCode
       /\ Done =>
            /\ p \in DOMAIN Aggregate.dutyCalculations.map
            /\ Aggregate.dutyCalculations.map[p] = dutyPromises[i].result
            /\ Aggregate.dutyCalculations.map[p].hsCode = classifications[p].hsCode

\* C5: the resolved value is the request's productValue when positive, else
\* the reasoning provider's estimate when it is a positive number or a string
\* parsing to one, else no value is resolved: then no duty call is issued,
\* the aggregate has no duty entries and the classification entries are those
\* of the classify calls
C5_ValueResolution ==
  Done =>
    IF GreaterThanZero(request.productValue)
    THEN Aggregate.productValue = request.productValue
    ELSE IF PositiveEstimate # Undefined
    THEN Aggregate.productValue = PositiveEstimate
    ELSE /\ Aggregate.productValue = Undefined
         /\ dutyPromises = <<>>
         /\ ~Aggregate.dutyCalculations.defined
         /\ Aggregate.classifications = classifications
         /\ DOMAIN Aggregate.classifications = request.providers

\* C6: in every aggregate productValue is absent or a positive number, and
\* isEstimatedValue is true only when productValue is a positive value taken
\* from the reasoning provider's estimate
C6_ValuePositiveOrAbsent ==
  \A k \in DOMAIN comparisonResults :
    /\ \/ comparisonResults[k].productValue = Undefined
       \/ GreaterThanZero(comparisonResults[k].productValue)
    /\ comparisonResults[k].isEstimatedValue =>
         /\ GreaterThanZero(comparisonResults[k].productValue)
         /\ comparisonResults[k].productValue = PositiveEstimate

C8_FallbackDutyEntry ==
  (/\ Done
   /\ "zonos" \in DOMAIN classifications
   /\ ~NoError("zonos")
   /\ UsableCode("anthropic")) =>
    /\ "zonos" \in DOMAIN Aggregate.dutyCalculations.map
    /\ Aggregate.dutyCalculations.map["zonos"].hsCode
         = classifications["anthropic"].hsCode

\* C8 amended: if a positive product value was resolved, the structured
\* classification fails and the reasoning classification succeeds with a
\* valid code, the aggregate has a duty entry under the structured provider's
\* key whose hsCode is the reasoning code
C8_FallbackDutyEntryWithValue ==
  (/\ Done
   /\ GreaterThanZero(Aggregate.productValue)
   /\ "zonos" \in DOMAIN classifications
   /\ ~NoError("zonos")
   /\ UsableCode("anthropic")) =>
    /\ "zonos" \in DOMAIN Aggregate.dutyCalculations.map
    /\ Aggregate.dutyCalculations.map["zonos"].hsCode
         = classifications["anthropic"].hsCode

C8_Witness ==
  /\ Done
  /\ GreaterThanZero(Aggregate.productValue)
  /\ "zonos" \in DOMAIN classifications
  /\ ~NoError("zonos")
  /\ UsableCode("anthropic")
  /\ "zonos" \in DOMAIN Aggregate.dutyCalculations.map
  /\ Aggregate.dutyCalculations.map["zonos"].provider = "zonos"

\* C9 as stated, for a request that names both providers: whenever the duty
\* phase runs and the reasoning or the structured classification yielded a
\* usable code, the duty map has an entry in the reasoning slot and an entry
\* in the structured slot
C9_TwoDutyFigures ==
  (/\ Done
   /\ {"anthropic", "zonos"} \subseteq request.providers
   /\ Aggregate.dutyCalculations.defined
   /\ UsableCode("anthropic") \/ UsableCode("zonos")) =>
    {"anthropic", "zonos"} \subseteq DOMAIN Aggregate.dutyCalculations.map

\* C9 amended: whenever the duty phase runs and the reasoning classification
\* yielded a usable code, the duty map has an entry in the reasoning slot and
\* an entry in the structured slot
C9_TwoDutyFiguresFromReasoning ==
  (/\ Done
   /\ Aggregate.dutyCalculations.defined
   /\ UsableCode("anthropic")) =>
    {"anthropic", "zonos"} \subseteq DOMAIN Aggregate.dutyCalculations.map

C9_Witness ==
  /\ Done
  /\ Aggregate.dutyCalculations.defined
  /\ UsableCode("anthropic")
  /\ ~UsableCode("zonos")
  /\ {"anthropic", "zonos"} \subseteq DOMAIN Aggregate.dutyCalculations.map

\* the duty call i met a transport error
DutyCallFailed(i) == dutyPromises[i].response.kind = "throw"

\* the duty call i got a landed cost reply
DutyCallSucceeded(i) == dutyPromises[i].response.kind = "json"

\* C10: if the duty call for provider X fails with a transport error while
\* the duty call for provider Y succeeds, runComparison still returns an
\* aggregate, which has Y's successful duty entry unchanged and an
\* error-carrying duty entry for X
C10_DutyFailuresIsolated ==
  /\ (pc = "await_duty"
        /\ \A i \in DOMAIN dutyPromises : dutyPromises[i].status = "done")
       => ENABLED Persist
  /\ Done =>
       /\ id \in DOMAIN comparisonResults
       /\ \A x, y \in DOMAIN dutyPromises :
            (DutyCallFailed(x) /\ DutyCallSucceeded(y)) =>
              LET duties == Aggregate.dutyCalculations.map
                  reply == dutyPromises[y].response
              IN /\ {dutyProviders[x], dutyProviders[y]} \subseteq DOMAIN duties
                 /\ duties[dutyProviders[x]].error \notin {UNDEF, ""}
                 /\ duties[dutyProviders[x]].totalLandedCost
                      = dutyPromises[x].productValue
                 /\ duties[dutyProviders[y]].error = UNDEF
                 /\ duties[dutyProviders[y]].provider = dutyProviders[y]
                 /\ duties[dutyProviders[y]].hsCode = dutyPromises[y].hsCode
                 /\ duties[dutyProviders[y]].duties = reply.dutiesTotal
                 /\ duties[dutyProviders[y]].vat = reply.taxesTotal
                 /\ duties[dutyProviders[y]].totalLandedCost
                      = dutyPromises[y].productValue
                          + reply.dutiesTotal + reply.taxesTotal

C10_Witness ==
  /\ Done
  /\ id \in DOMAIN comparisonResults
  /\ \E x, y \in DOMAIN dutyPromises :
       /\ DutyCallFailed(x)
       /\ DutyCallSucceeded(y)
       /\ Aggregate.dutyCalculations.map[dutyProviders[x]].error = "Unknown error"
       /\ Aggregate.dutyCalculations.map[dutyProviders[y]].error = UNDEF

----------------------------------------------------------------------------
(* Properties: failure of the whole comparison *)

\* the store as runComparison found it under SpecRejecting
StoreAtEntry == (0 :> EarlierResult)

\* C12: if an adapter call raises an exception that escapes into
\* runComparison, the comparison fails and the result store is exactly as it
\* was before the call: no aggregate, partial or complete, is stored for it
C12_NoPartialResult ==
  (Started /\ pc # "done") =>
    /\ id \notin DOMAIN comparisonResults
    /\ comparisonResults = StoreAtEntry

\* the duty join rejected after classifications and a duty result were in
C12_Witness ==
  /\ pc = "failed"
  /\ comparisonResults = (0 :> EarlierResult)
  /\ DOMAIN classifications = Providers
  /\ \E i \in DOMAIN dutyPromises : dutyPromises[i].status = "done"

----------------------------------------------------------------------------
(* Properties: the duty join *)

\* the duty phase has been entered
DutyPhaseEntered == pc \in {"await_duty", "done"} /\ dutyCalculations.defined

\* some duty call has not settled yet
DutyCallPending == \E i \in DOMAIN dutyPromises : dutyPromises[i].status = "inflight"

\* C11: all duty calls are started before any is awaited, the aggregate is
\* built and stored only after every issued duty call has completed, and for
\* every completion order each result is stored under the provider it was
\* issued for, with its provider field equal to that key: none is dropped,
\* none is attributed to another provider
C11_DutyJoin ==
  /\ DutyPhaseEntered =>
       /\ Len(dutyPromises) = Len(DutyPlan(classifications))
       /\ \A i \in DOMAIN dutyPromises : dutyPromises[i].status # "none"
  /\ DutyCallPending =>
       /\ pc = "await_duty"
       /\ id \notin DOMAIN comparisonResults
       /\ dutyCalculations.map = <<>>
  /\ (Done /\ dutyCalculations.defined) =>
       LET duties == Aggregate.dutyCalculations.map
       IN /\ DOMAIN duties = {dutyProviders[i] : i \in DOMAIN dutyPromises}
          /\ \A i \in DOMAIN dutyPromises :
               /\ dutyPromises[i].status = "done"
               /\ duties[dutyProviders[i]] = dutyPromises[i].result
               /\ duties[dutyProviders[i]].provider = dutyProviders[i]
               /\ duties[dutyProviders[i]].hsCode = dutyPromises[i].hsCode
               /\ (duties[dutyProviders[i]].error = UNDEF)
                    = (dutyPromises[i].response.kind = "json")

\* the third call settled while the first two are still in flight
C11_Witness ==
  /\ pc = "await_duty"
  /\ Len(dutyPromises) = 3
  /\ dutyPromises[1].status = "inflight"
  /\ dutyPromises[2].status = "inflight"
  /\ dutyPromises[3].status = "done"
  /\ dutyPromises[3].result.provider = "zonos"
  /\ dutyPromises[3].result.error = UNDEF

----------------------------------------------------------------------------
(* Properties: the winner and the notes *)

\* both scored providers returned, without error, the same full code
SameFullCode(cls) ==
  /\ {"anthropic", "openai"} \subseteq DOMAIN cls
  /\ cls["anthropic"].error = UNDEF
  /\ cls["openai"].error = UNDEF
  /\ cls["anthropic"].hsCode # <<>>
  /\ cls["anthropic"].hsCode = cls["openai"].hsCode

\* the winner is the provider with the strictly higher score, "tie" exactly
\* when the scores are equal and positive, undefined exactly when both are 0
WinnerByScore ==
  LET a == ScoreOf("anthropic", classifications)
      o == ScoreOf("openai", classifications)
      w == Analysis.winner
  IN /\ w = "anthropic" <=> a > o
     /\ w = "openai" <=> o > a
     /\ w = "tie" <=> (a = o /\ a > 0)
     /\ w = UNDEF <=> (a = 0 /\ o = 0)

\* two providers with the same full code and confidences 0.9 and 0.85: the
\* one with 0.9 wins
HigherConfidenceWins ==
  \A p, q \in {"anthropic", "openai"} :
    (/\ SameFullCode(classifications)
     /\ classifications[p].confidence = 90
     /\ classifications[q].confidence = 85) => Analysis.winner = p

\* C21: the winner recorded by analyzeResults is the provider whose score
\* against the structured result is strictly higher, "tie" exactly when the
\* compared scores are equal and positive, undefined exactly when all scores
\* are zero; two providers returning the same full code with confidences 0.9
\* and 0.85 yield the higher-confidence provider as winner
C21_Winner == Analyzed => (WinnerByScore /\ HigherConfidenceWins)

\* the notes hold the sentence
Mentions(notes, sentence) == \E i \in DOMAIN notes : notes[i] = sentence

\* provider p is part of the comparison and its classification succeeded
Classified(p) ==
  /\ p \in DOMAIN classifications
  /\ ~TruthyStr(classifications[p].error)

\* C22: the notes of generateAnalysisNotes never report agreement ("All
\* providers returned the same HS code", agreement on HS6, "X matches Y") for
\* a pair or set of providers in which a classification is absent or errored
C22_NotesHonest ==
  Analyzed =>
    LET notes == Analysis.notes
    IN /\ Mentions(notes, "All providers returned the same HS code.")
            => \A p \in Providers : Classified(p)
       /\ Mentions(notes, "All providers agree on HS6 (first 6 digits), differ on full code.")
            => \A p \in Providers : Classified(p)
       /\ Mentions(notes, "Anthropic matches Zonos")
            => Classified("anthropic") /\ Classified("zonos")
       /\ Mentions(notes, "OpenAI matches Zonos")
            => Classified("openai") /\ Classified("zonos")
       /\ Mentions(notes, "Anthropic matches OpenAI")
            => Classified("anthropic") /\ Classified("openai")

----------------------------------------------------------------------------
(* Concurrent comparisons.  Each invocation of runComparison keeps its own  *)
(* locals; the invocations share comparisonResults.  An invocation is       *)
(* suspended at its awaits, where the others run: after its entry, and      *)
(* after its classification calls.                                          *)

\* invocations of runComparison in flight at once
MaxRuns == 2

RunIds == 1..MaxRuns

\* clock readings of new Date()
Instants == {1, 2}

\* every call returns the same identifier
uuidv4_Repeating(issued) == 1

\* uuidv4(): an identifier that no earlier call returned
uuidv4(issued) == CHOOSE u \in 1..(Cardinality(issued) + 1) : u \notin issued

NoRun == [pc |-> "idle"]

\* the identifiers handed out so far
IssuedIds == {runs[r].id : r \in {q \in DOMAIN runs : runs[q].pc # "idle"}}

StoreRequests ==
  {r \in Requests :
     /\ r.imageBase64 = UNDEF
     /\ r.imageUrl = UNDEF
     /\ r.productName = "handbag"
     /\ r.productDescription = UNDEF
     /\ r.providers \in {Providers, {"openai"}}
     /\ r.productValue # Undefined <=> r.providers = Providers}

\* what the three classification backends answer to one comparison: every
\* call fails, the reasoning call fails, every call is answered
StoreReplies ==
  LET reply(code, conf) ==
        [kind |-> "json",
         parsed |-> [hsCode |-> Str(code), hsCode6 |-> Undefined,
                     hsCode8 |-> Undefined, confidence |-> conf,
                     description |-> "Handbags of leather",
                     productIdentified |-> "leather handbag",
                     estimatedValueEUR |-> Undefined]]
      zonos == [kind |-> "json",
                parsed |-> [hsCode |-> Str(Code1), confidence |-> Undefined]]
      failed == [kind |-> "throw"]
  IN {[anthropic |-> failed, openai |-> failed, zonos |-> failed],
      [anthropic |-> failed, openai |-> reply(Code1, Num(85)), zonos |-> zonos],
      [anthropic |-> reply(Code1, Num(90)), openai |-> reply(Code2, Num(85)),
       zonos |-> zonos]}

InitStore ==
  /\ env = Providers
  /\ pc = "idle"
  /\ request = Undefined
  /\ id = 0
  /\ input = Undefined
  /\ calls = [p \in Providers |-> NoCall]
  /\ zonosRequest = Undefined
  /\ fetches = {}
  /\ classifications = <<>>
  /\ productValue = Undefined
  /\ isEstimatedValue = FALSE
  /\ dutyProviders = <<>>
  /\ dutyPromises = <<>>
  /\ dutyCalculations = [defined |-> FALSE, map |-> <<>>]
  /\ comparisonResults = <<>>
  /\ timestamp = Undefined
  /\ keyOrder = <<>>
  /\ runs = [r \in RunIds |-> NoRun]
  /\ httpExchange = NoExchange
  /\ VoiceIdle

\* entry of an invocation: id, timestamp, input
RunBegin(r, req, now) ==
  /\ runs[r].pc = "idle"
  /\ runs' = [runs EXCEPT ![r] =
                [pc |-> "classify",
                 id |-> uuidv4(IssuedIds),
                 timestamp |-> toISOString(now),
                 request |-> req,
                 input |-> InputOf(req)]]
  /\ UNCHANGED <<env, pc, request, id, input, calls, zonosRequest, fetches,
                 classifications, productValue, isEstimatedValue,
                 dutyProviders, dutyPromises, dutyCalculations,
                 comparisonResults, timestamp, keyOrder, httpExchange, voiceVars>>

\* steps 1 to 4 of an invocation: its classification calls have returned,
\* the input is rewritten for the structured call, the value is resolved and
\* the duty calls are started
RunClassified(r, replies) ==
  /\ runs[r].pc = "classify"
  /\ LET req == runs[r].request
         first == [p \in req.providers \cap {"anthropic"} |->
                     Classify(p, p \in env, replies[p])]
         cls == [p \in req.providers |-> Classify(p, p \in env, replies[p])]
         resolved == ResolveProductValue(req, cls)
     IN runs' = [runs EXCEPT ![r] =
                   [pc |-> "duty",
                    id |-> @.id,
                    timestamp |-> @.timestamp,
                    request |-> req,
                    input |-> IF "zonos" \in req.providers
                              THEN InputAfterStep2(@.input, first)
                              ELSE @.input,
                    classifications |-> cls,
                    productValue |-> resolved.productValue,
                    isEstimatedValue |-> resolved.isEstimatedValue]]
  /\ UNCHANGED <<env, pc, request, id, input, calls, zonosRequest, fetches,
                 classifications, productValue, isEstimatedValue,
                 dutyProviders, dutyPromises, dutyCalculations,
                 comparisonResults, timestamp, keyOrder, httpExchange, voiceVars>>

\* the duty calls of an invocation have all settled: the aggregate is built,
\* put in the store and returned
RunPersist(r, response) ==
  /\ runs[r].pc = "duty"
  /\ LET run == runs[r]
         plan == DutyPlan(run.classifications)
         results ==
           [i \in DOMAIN plan |->
              [calculateDutyWithZonos(plan[i].hsCode, run.productValue.v,
                                      "zonos" \in env, response)
                 EXCEPT !.provider = plan[i].provider]]
         duties ==
           IF DutyPhaseRuns(run.productValue)
           THEN [defined |-> TRUE,
                 map |-> AssignDuties(<<>>, [i \in DOMAIN plan |-> plan[i].provider],
                                      results, 1)]
           ELSE [defined |-> FALSE, map |-> <<>>]
     IN \E result \in {ComparisonResultOf(run.id, run.timestamp, run.input,
                                           run.productValue,
                                           run.isEstimatedValue,
                                           run.classifications, duties)} :
          /\ comparisonResults' = (run.id :> result) @@ comparisonResults
          /\ keyOrder' = MapKeysAfterSet(keyOrder, run.id)
          /\ runs' = [runs EXCEPT ![r] = [pc |-> "done", id |-> run.id,
                                          returned |-> result]]
  /\ UNCHANGED <<env, pc, request, id, input, calls, zonosRequest, fetches,
                 classifications, productValue, isEstimatedValue,
                 dutyProviders, dutyPromises, dutyCalculations,
                 timestamp, httpExchange, voiceVars>>

NextStore ==
  \/ \E r \in RunIds, req \in StoreRequests, now \in Instants : RunBegin(r, req, now)
  \/ \E r \in RunIds, replies \in StoreReplies : RunClassified(r, replies)
  \/ \E r \in RunIds, response \in DutyResponses : RunPersist(r, response)

SpecStore == InitStore /\ [][NextStore]_vars

\* getComparisonResult(id)
getComparisonResult(key) ==
  IF key \in DOMAIN comparisonResults THEN comparisonResults[key] ELSE Undefined

\* the comparator takes the older aggregate first
CompareTimestamps_OldestFirst(a, b) == getTime(a.timestamp) - getTime(b.timestamp)

\* (a, b) => new Date(b.timestamp).getTime() - new Date(a.timestamp).getTime()
CompareTimestamps(a, b) == getTime(b.timestamp) - getTime(a.timestamp)

\* Array.prototype.sort is stable: x, which came after every element of
\* sorted, goes behind the elements that do not have to follow it
RECURSIVE SortedInsert(_, _)
SortedInsert(sorted, x) ==
  IF sorted = <<>>
  THEN <<x>>
  ELSE IF CompareTimestamps(sorted[Len(sorted)], x) > 0
  THEN Append(SortedInsert(SubSeq(sorted, 1, Len(sorted) - 1), x),
              sorted[Len(sorted)])
  ELSE Append(sorted, x)

RECURSIVE SortByTimestamp(_)
SortByTimestamp(items) ==
  IF items = <<>>
  THEN <<>>
  ELSE SortedInsert(SortByTimestamp(SubSeq(items, 1, Len(items) - 1)),
                    items[Len(items)])

\* Array.from(comparisonResults.values()): the values in insertion order
MapValues == [i \in DOMAIN keyOrder |-> comparisonResults[keyOrder[i]]]

getAllComparisonResults == SortByTimestamp(MapValues)

\* a quotient n / d, kept as its two terms; 0 when there is nothing to
\* divide by
Ratio(n, d) == IF d > 0 THEN [num |-> n, den |-> d] ELSE [num |-> 0, den |-> 1]

RECURSIVE ConfidenceSum(_, _)
ConfidenceSum(results, p) ==
  IF results = <<>>
  THEN 0
  ELSE LET cls == Head(results).classifications
       IN (IF p \in DOMAIN cls THEN cls[p].confidence ELSE 0)
            + ConfidenceSum(Tail(results), p)

getComparisonStats ==
  LET results == getAllComparisonResults
      Count(Test(_)) == Cardinality({i \in DOMAIN results : Test(results[i])})
      Won(w) == Count(LAMBDA r : r.analysis.winner = w)
      HasConfidence(p) ==
        Count(LAMBDA r : /\ p \in DOMAIN r.classifications
                         /\ r.classifications[p].confidence # 0)
      Hs6Total(p) ==
        Count(LAMBDA r : {p, "zonos"} \subseteq DOMAIN r.classifications)
      Hs6Matches(p, cell) ==
        Count(LAMBDA r : /\ {p, "zonos"} \subseteq DOMAIN r.classifications
                         /\ r.analysis.hsCodeMatch.hs6Match[cell].v)
  IN [total |-> Len(results),
      anthropicWins |-> Won("anthropic"),
      openaiWins |-> Won("openai"),
      ties |-> Won("tie"),
      avgConfidence |->
        [p \in Providers |-> Ratio(ConfidenceSum(results, p), HasConfidence(p))],
      hs6MatchRate |->
        [anthropic |-> Ratio(Hs6Matches("anthropic", "anthropicVsZonos"),
                             Hs6Total("anthropic")),
         openai |-> Ratio(Hs6Matches("openai", "openaiVsZonos"),
                          Hs6Total("openai"))]]

----------------------------------------------------------------------------
(* Properties: the result store *)

Completed(r) == runs[r].pc = "done"

\* C23: for any interleaving of concurrently running comparisons, each
\* comparison that completes is stored under its own distinct id,
\* getComparisonResult(id) returns exactly the aggregate runComparison
\* returned for it (undefined for an id never issued), and no comparison
\* overwrites, alters or removes another comparison's entry
C23_StoreIsolation ==
  /\ \A r \in RunIds :
       Completed(r) =>
         /\ runs[r].id \in DOMAIN comparisonResults
         /\ getComparisonResult(runs[r].id) = runs[r].returned
         /\ runs[r].returned.id = runs[r].id
  /\ \A r, q \in RunIds :
       (r # q /\ runs[r].pc # "idle" /\ runs[q].pc # "idle")
         => runs[r].id # runs[q].id
  /\ \A key \in 0..(MaxRuns + 1) :
       key \notin IssuedIds => getComparisonResult(key) = Undefined
  /\ Cardinality(DOMAIN comparisonResults)
       = Cardinality({r \in RunIds : Completed(r)})

\* two comparisons that overlapped have both completed, the one that began
\* later first, with different aggregates
C23_Witness ==
  /\ \A r \in {1, 2} : Completed(r)
  /\ runs[1].id = 1
  /\ runs[2].id = 2
  /\ keyOrder[1] = 2
  /\ keyOrder[2] = 1
  /\ runs[1].returned.classifications # runs[2].returned.classifications

\* C24: after any sequence of completed comparisons getAllComparisonResults
\* returns every stored aggregate exactly once, newest first (non-increasing
\* creation timestamp), whatever the order in which they were inserted
C24_NewestFirst ==
  LET all == getAllComparisonResults
  IN /\ Len(all) = Cardinality(DOMAIN comparisonResults)
     /\ \A key \in DOMAIN comparisonResults :
          Cardinality({i \in DOMAIN all : all[i] = comparisonResults[key]}) = 1
     /\ \A i, j \in DOMAIN all :
          i < j => getTime(all[i].timestamp) >= getTime(all[j].timestamp)

\* the aggregate inserted first is the older one: the listing reverses the
\* insertion order
C24_Witness ==
  /\ Len(keyOrder) = 2
  /\ getTime(comparisonResults[keyOrder[1]].timestamp) = 1
  /\ getTime(comparisonResults[keyOrder[2]].timestamp) = 2
  /\ getAllComparisonResults[1].id = keyOrder[2]
  /\ getAllComparisonResults[2].id = keyOrder[1]

----------------------------------------------------------------------------
(* POST /api/compare: the body is validated, runComparison is awaited and   *)
(* its aggregate is the reply.  Codes and currencies are sequences of       *)
(* characters.  The store holds the aggregate of an earlier comparison.     *)

Letters == {"C", "E", "F", "N", "R", "U"}

CountryCodes == {Str(<<"F">>), Str(<<"F", "R">>), Str(<<"1", "2">>)}

CurrencyCodes ==
  {Str(<<"E", "U">>), Str(<<"E", "U", "R">>), Str(<<"1", "2", "3">>)}

\* a JSON array of provider names
Arr(items) == [t |-> "array", v |-> items]

\* z.string().url()
IsUrl(text) == text \in {"https://img.example/bag.png"}

\* what a client may post
Bodies ==
  [imageBase64 : {UNDEF},
   imageUrl : {UNDEF, "bag.png"},
   productName : {UNDEF, "handbag"},
   productDescription : {UNDEF},
   originCountry : {Undefined, Str(<<"C">>)},
   shipToCountry : {Undefined} \cup CountryCodes,
   productValue : {Undefined, Num(250)},
   currency : {Undefined} \cup CurrencyCodes,
   providers : {Undefined, Arr({"anthropic"})},
   calculateDuty : {Undefined}]

\* z.string().length(n).optional(), or with a default
LengthOrAbsent(value, n) == value = Undefined \/ Len(value.s) = n

\* ComparisonRequestSchema.parse(req.body) does not throw
SchemaAccepts(body) ==
  /\ body.imageUrl = UNDEF \/ IsUrl(body.imageUrl)
  /\ LengthOrAbsent(body.originCountry, 2)
  /\ LengthOrAbsent(body.shipToCountry, 2)
  /\ body.productValue = Undefined \/ GreaterThanZero(body.productValue)
  /\ LengthOrAbsent(body.currency, 3)
  /\ \/ TruthyStr(body.imageBase64)
     \/ TruthyStr(body.imageUrl)
     \/ TruthyStr(body.productName)
     \/ TruthyStr(body.productDescription)

\* the parsed request as runComparison reads it; providers defaults to all
ValidatedRequest(body) ==
  [imageBase64 |-> body.imageBase64,
   imageUrl |-> body.imageUrl,
   productName |-> body.productName,
   productDescription |-> body.productDescription,
   productValue |-> body.productValue,
   providers |-> IF body.providers = Undefined THEN Providers
                 ELSE body.providers.v]

InitRoute ==
  /\ env = Providers
  /\ pc = "idle"
  /\ request = Undefined
  /\ id = 0
  /\ input = Undefined
  /\ calls = [p \in Providers |-> NoCall]
  /\ zonosRequest = Undefined
  /\ fetches = {}
  /\ classifications = <<>>
  /\ productValue = Undefined
  /\ isEstimatedValue = FALSE
  /\ dutyProviders = <<>>
  /\ dutyPromises = <<>>
  /\ dutyCalculations = [defined |-> FALSE, map |-> <<>>]
  /\ comparisonResults = (0 :> EarlierResult)
  /\ timestamp = Undefined
  /\ keyOrder = <<0>>
  /\ runs = <<>>
  /\ httpExchange = NoExchange
  /\ VoiceIdle

\* router.post('/'): a ZodError is answered 400 at once, else runComparison
\* is entered with the parsed request
PostCompare(body) ==
  /\ httpExchange = NoExchange
  /\ pc = "idle"
  /\ IF SchemaAccepts(body)
     THEN /\ httpExchange' = [body |-> body, status |-> 0]
          /\ request' = ValidatedRequest(body)
          /\ id' = Cardinality(DOMAIN comparisonResults) + 1
          /\ timestamp' = toISOString(StartTime)
          /\ input' = InputOf(ValidatedRequest(body))
          /\ pc' = "step1"
     ELSE /\ httpExchange' = [body |-> body, status |-> 400]
          /\ UNCHANGED <<request, id, timestamp, input, pc>>
  /\ UNCHANGED <<env, fetches, calls, zonosRequest, classifications,
                 productValue, isEstimatedValue, dutyProviders, dutyPromises,
                 dutyCalculations, comparisonResults, keyOrder, runs,
                 voiceVars>>

\* res.json(result)
ReplyResult ==
  /\ pc = "done"
  /\ httpExchange.status = 0
  /\ httpExchange' = [httpExchange EXCEPT !.status = 200]
  /\ UNCHANGED <<env, pc, request, id, input, calls, zonosRequest, fetches,
                 classifications, productValue, isEstimatedValue,
                 dutyProviders, dutyPromises, dutyCalculations,
                 comparisonResults, timestamp, keyOrder, runs, voiceVars>>

NextRoute ==
  \/ \E body \in Bodies : PostCompare(body)
  \/ Step1
  \/ AnthropicReturn
  \/ Step2
  \/ ZonosReturn
  \/ StepOpenAI
  \/ OpenAIReturn
  \/ Step3
  \/ Step4
  \/ \E i \in 1..3 : DutyReturn(i)
  \/ Persist
  \/ ReplyResult

SpecRoute == InitRoute /\ [][NextRoute]_vars

----------------------------------------------------------------------------
(* Properties: request validation *)

Posted == httpExchange.body # Undefined

IsLetterCode(value, n) ==
  /\ Len(value.s) = n
  /\ \A i \in DOMAIN value.s : value.s[i] \in Letters

\* none of the four content fields is there
LacksContent(body) ==
  /\ body.imageBase64 = UNDEF
  /\ body.imageUrl = UNDEF
  /\ body.productName = UNDEF
  /\ body.productDescription = UNDEF

\* a country code that is not 2 letters, or a currency that is not 3
BadCodes(body) ==
  \/ body.originCountry # Undefined /\ ~IsLetterCode(body.originCountry, 2)
  \/ body.shipToCountry # Undefined /\ ~IsLetterCode(body.shipToCountry, 2)
  \/ body.currency # Undefined /\ ~IsLetterCode(body.currency, 3)

\* C25: a request to POST /api/compare that lacks all of imageBase64,
\* imageUrl, productName and productDescription, or whose country code is not
\* 2 letters or currency not 3 letters, is rejected with a validation error
\* before any provider call is made, and the result store is unchanged
C25_InvalidRejected ==
  (Posted /\ (LacksContent(httpExchange.body) \/ BadCodes(httpExchange.body))) =>
    /\ httpExchange.status = 400
    /\ pc = "idle"
    /\ fetches = {}
    /\ \A p \in Providers : calls[p].status = "none"
    /\ comparisonResults = StoreAtEntry

----------------------------------------------------------------------------
(* runComparison with backends that may never answer.  The steps of the     *)
(* orchestrator and the return of an adapter that sent no request are taken *)
(* whenever they can be; the return of a call that waits for its backend    *)
(* happens only if the backend answers or the connection fails, and no      *)
(* adapter arms a timer or passes an abort signal.                          *)

InitUnresponsive ==
  /\ env \in {{}, Providers}
  /\ pc = "idle"
  /\ request = Undefined
  /\ id = 0
  /\ input = Undefined
  /\ calls = [p \in Providers |-> NoCall]
  /\ zonosRequest = Undefined
  /\ fetches = {}
  /\ classifications = <<>>
  /\ productValue = Undefined
  /\ isEstimatedValue = FALSE
  /\ dutyProviders = <<>>
  /\ dutyPromises = <<>>
  /\ dutyCalculations = [defined |-> FALSE, map |-> <<>>]
  /\ comparisonResults = <<>>
  /\ timestamp = Undefined
  /\ keyOrder = <<>>
  /\ runs = <<>>
  /\ httpExchange = NoExchange
  /\ VoiceIdle

\* the synchronous stretches of runComparison between two awaits
OrchestratorSteps ==
  Step1 \/ Step2 \/ StepOpenAI \/ Step3 \/ Step4 \/ Persist

\* an adapter without its API key returns its error result without waiting
\* for anything
KeylessReturns ==
  \/ "anthropic" \notin env /\ AnthropicReturn
  \/ "zonos" \notin env /\ ZonosReturn
  \/ "openai" \notin env /\ OpenAIReturn
  \/ "zonos" \notin env /\ \E i \in 1..3 : DutyReturn(i)

SpecUnresponsive ==
  /\ InitUnresponsive
  /\ [][Next]_vars
  /\ WF_vars(OrchestratorSteps)
  /\ WF_vars(KeylessReturns)

\* C26: every invocation of runComparison eventually completes with an
\* aggregate even when a classification or duty backend never responds: the
\* unresponsive call becomes an error result for that provider only and the
\* remaining steps still run
C26_AlwaysCompletes ==
  Started ~> (Done /\ id \in DOMAIN comparisonResults)

\* the stored aggregates with the test
Stored(Test(_)) ==
  Cardinality({key \in DOMAIN comparisonResults : Test(comparisonResults[key])})

\* p classified without error in the aggregate
Succeeded(r, p) ==
  p \in DOMAIN r.classifications /\ ~TruthyStr(r.classifications[p].error)

SameRatio(a, b) == a.num * b.den = b.num * a.den

\* C27: getComparisonStats reports total equal to the number of stored
\* aggregates, anthropicWins, openaiWins and ties equal to the number of
\* stored aggregates with that winner (their sum never above total), and
\* each hs6MatchRate equal to the number of stored aggregates in which that
\* provider and the structured provider both classified successfully and
\* agree on hs6, divided by the number in which both were compared, 0 when
\* none were
C27_Stats ==
  LET stats == getComparisonStats
      Compared(p) ==
        Stored(LAMBDA r : {p, "zonos"} \subseteq DOMAIN r.classifications)
      Agreeing(p) ==
        Stored(LAMBDA r : /\ Succeeded(r, p)
                          /\ Succeeded(r, "zonos")
                          /\ r.classifications[p].hsCode6
                               = r.classifications["zonos"].hsCode6)
  IN /\ stats.total = Cardinality(DOMAIN comparisonResults)
     /\ stats.anthropicWins = Stored(LAMBDA r : r.analysis.winner = "anthropic")
     /\ stats.openaiWins = Stored(LAMBDA r : r.analysis.winner = "openai")
     /\ stats.ties = Stored(LAMBDA r : r.analysis.winner = "tie")
     /\ stats.anthropicWins + stats.openaiWins + stats.ties <= stats.total
     /\ \A p \in {"anthropic", "openai"} :
          SameRatio(stats.hs6MatchRate[p], Ratio(Agreeing(p), Compared(p)))

----------------------------------------------------------------------------
(* Properties: the keys of the aggregate *)

\* C28: in every aggregate produced by runComparison the keys of the
\* classification map are exactly the requested providers and every key of
\* the duty map is a requested provider: no duty call is issued and no duty
\* entry is stored in the slot of a provider that was not requested
C28_OnlyRequestedProviders ==
  /\ Started =>
       \A i \in DOMAIN dutyProviders : dutyProviders[i] \in request.providers
  /\ Done =>
       /\ DOMAIN Aggregate.classifications = request.providers
       /\ DOMAIN Aggregate.dutyCalculations.map \subseteq request.providers

----------------------------------------------------------------------------
(* The voice command hooks of the app: useVoiceCommands and                 *)
(* useSpeechRecognition.  A synchronous stretch of a handler is one step;   *)
(* the awaits (Voice.start, api.parseVoiceCommand) and the timers are the   *)
(* places where other handlers run in between.                              *)

\* taps on the microphone button and commands typed in the debug panel
MaxTaps == 3

\* the variables of the server, which the app's hooks never touch
serverVars == <<env, pc, request, id, input, calls, zonosRequest,
                classifications, productValue, isEstimatedValue,
                dutyProviders, dutyPromises, dutyCalculations,
                comparisonResults, timestamp, keyOrder, runs, httpExchange>>

\* the hooks as mounted, on a build with or without the native Voice module
InitVoice ==
  /\ env = Providers
  /\ pc = "idle"
  /\ request = Undefined
  /\ id = 0
  /\ input = Undefined
  /\ calls = [p \in Providers |-> NoCall]
  /\ zonosRequest = Undefined
  /\ fetches = {}
  /\ classifications = <<>>
  /\ productValue = Undefined
  /\ isEstimatedValue = FALSE
  /\ dutyProviders = <<>>
  /\ dutyPromises = <<>>
  /\ dutyCalculations = [defined |-> FALSE, map |-> <<>>]
  /\ comparisonResults = <<>>
  /\ timestamp = Undefined
  /\ keyOrder = <<>>
  /\ runs = <<>>
  /\ httpExchange = NoExchange
  /\ hasVoice \in BOOLEAN
  /\ mode = "idle"
  /\ isProcessingRef = FALSE
  /\ speechPc = "none"
  /\ startTimers = 0
  /\ pendingStarts = 0
  /\ isActiveRef = FALSE
  /\ recognizer = "off"
  /\ absoluteTimerRef = FALSE
  /\ silenceTimerRef = FALSE
  /\ taps = 0

\* clearTimers(): both timeouts are cancelled
clearTimers ==
  /\ absoluteTimerRef' = FALSE
  /\ silenceTimerRef' = FALSE

\* the tail of handleSpeechResult: the guard is released and the mode is idle
ReleaseGuard ==
  /\ isProcessingRef' = FALSE
  /\ mode' = "idle"
  /\ speechPc' = "none"

\* executeCommand(command) threw: the async function ends there, with the
\* guard held and whatever mode was set
CommandFailed ==
  /\ isProcessingRef' = TRUE
  /\ speechPc' = "failed"

\* the request api.parseVoiceCommand sends to the server
ParseRoute == "/api/parse-voice"

\* handleSpeechResult(text) up to its first await, or to its end when the
\* local parse finds a command: local is parseVoiceCommand(text) # null,
\* throws is whether the callback run by executeCommand throws
handleSpeechResult(local, throws) ==
  IF isProcessingRef
  THEN UNCHANGED <<isProcessingRef, mode, speechPc, fetches>>
  ELSE IF local
       THEN /\ IF throws
               THEN /\ CommandFailed
                    /\ mode' = "processing"
               ELSE ReleaseGuard
            /\ UNCHANGED fetches
       ELSE /\ isProcessingRef' = TRUE
            /\ mode' = "processing"
            /\ speechPc' = "await_backend"
            /\ fetches' = fetches \cup {ParseRoute}

\* handleSpeechTimeout()
handleSpeechTimeout == mode' = "idle"

\* activate(): a tap while listening cancels (stopListening(), idle); a tap
\* while idle enters active_listening and schedules startListening in 500 ms;
\* a tap in any other mode does nothing
activate ==
  /\ taps < MaxTaps
  /\ taps' = taps + 1
  /\ IF mode = "active_listening"
     THEN /\ isActiveRef' = FALSE
          /\ clearTimers
          /\ recognizer' = IF hasVoice THEN "off" ELSE recognizer
          /\ mode' = "idle"
          /\ UNCHANGED startTimers
     ELSE IF mode # "idle"
     THEN UNCHANGED <<isActiveRef, absoluteTimerRef, silenceTimerRef,
                      recognizer, mode, startTimers>>
     ELSE /\ mode' = "active_listening"
          /\ startTimers' = startTimers + 1
          /\ UNCHANGED <<isActiveRef, absoluteTimerRef, silenceTimerRef,
                         recognizer>>
  /\ UNCHANGED <<hasVoice, isProcessingRef, speechPc, pendingStarts,
                 fetches, serverVars>>

\* simulateCommand(text): the debug panel hands a text to handleSpeechResult
simulateCommand ==
  /\ taps < MaxTaps
  /\ taps' = taps + 1
  /\ \E local \in BOOLEAN, throws \in BOOLEAN :
       handleSpeechResult(local, throws)
  /\ UNCHANGED <<hasVoice, startTimers, pendingStarts, isActiveRef,
                 recognizer, absoluteTimerRef, silenceTimerRef, serverVars>>

\* the 500 ms timer fires: startListening() up to await Voice.start
startListening ==
  /\ startTimers > 0
  /\ startTimers' = startTimers - 1
  /\ IF ~hasVoice
     THEN /\ handleSpeechTimeout
          /\ UNCHANGED <<isActiveRef, recognizer, pendingStarts>>
     ELSE /\ isActiveRef' = TRUE
          /\ recognizer' = "on"
          /\ pendingStarts' = pendingStarts + 1
          /\ UNCHANGED mode
  /\ UNCHANGED <<hasVoice, isProcessingRef, speechPc, absoluteTimerRef,
                 silenceTimerRef, taps, fetches, serverVars>>

\* Voice.start resolved: the absolute and the silence timeout are armed
VoiceStartResolves ==
  /\ pendingStarts > 0
  /\ pendingStarts' = pendingStarts - 1
  /\ absoluteTimerRef' = TRUE
  /\ silenceTimerRef' = TRUE
  /\ UNCHANGED <<hasVoice, mode, isProcessingRef, speechPc, startTimers,
                 isActiveRef, recognizer, taps, fetches, serverVars>>

\* Voice.start rejected: the catch block of startListening
VoiceStartRejects ==
  /\ pendingStarts > 0
  /\ pendingStarts' = pendingStarts - 1
  /\ isActiveRef' = FALSE
  /\ recognizer' = "off"
  /\ clearTimers
  /\ handleSpeechTimeout
  /\ UNCHANGED <<hasVoice, isProcessingRef, speechPc, startTimers, taps,
                 fetches, serverVars>>

\* the absolute timeout fires: Voice.stop() if the session is still active
AbsoluteTimeout ==
  /\ absoluteTimerRef
  /\ absoluteTimerRef' = FALSE
  /\ recognizer' = IF isActiveRef /\ recognizer = "on"
                   THEN "stopping" ELSE recognizer
  /\ UNCHANGED <<hasVoice, mode, isProcessingRef, speechPc, startTimers,
                 pendingStarts, isActiveRef, silenceTimerRef, taps,
                 fetches, serverVars>>

\* the silence timeout fires: Voice.stop() if the session is still active
SilenceTimeout ==
  /\ silenceTimerRef
  /\ silenceTimerRef' = FALSE
  /\ recognizer' = IF isActiveRef /\ recognizer = "on"
                   THEN "stopping" ELSE recognizer
  /\ UNCHANGED <<hasVoice, mode, isProcessingRef, speechPc, startTimers,
                 pendingStarts, isActiveRef, absoluteTimerRef, taps,
                 fetches, serverVars>>

\* Voice.onSpeechPartialResults: resetSilenceTimer() while the session is
\* active
onSpeechPartialResults ==
  /\ recognizer = "on"
  /\ silenceTimerRef' = IF isActiveRef THEN TRUE ELSE silenceTimerRef
  /\ UNCHANGED <<hasVoice, mode, isProcessingRef, speechPc, startTimers,
                 pendingStarts, isActiveRef, recognizer, absoluteTimerRef,
                 taps, fetches, serverVars>>

\* Voice.onSpeechResults with a transcript: ignored unless the session is
\* active, else the session ends and the transcript goes to
\* handleSpeechResult
onSpeechResults ==
  /\ recognizer \in {"on", "stopping"}
  /\ recognizer' = "off"
  /\ IF ~isActiveRef
     THEN UNCHANGED <<isActiveRef, absoluteTimerRef, silenceTimerRef,
                      isProcessingRef, mode, speechPc, fetches>>
     ELSE /\ isActiveRef' = FALSE
          /\ clearTimers
          /\ \E local \in BOOLEAN, throws \in BOOLEAN :
               handleSpeechResult(local, throws)
  /\ UNCHANGED <<hasVoice, startTimers, pendingStarts, taps, serverVars>>

\* Voice.onSpeechEnd, and Voice.onSpeechError, whose body is the same by Voice.onSpeechError and Voice.onSpeechEnd
onSpeechEnd ==
  /\ recognizer \in {"on", "stopping"}
  /\ recognizer' = "off"
  /\ IF ~isActiveRef
     THEN UNCHANGED <<isActiveRef, absoluteTimerRef, silenceTimerRef, mode>>
     ELSE /\ isActiveRef' = FALSE
          /\ clearTimers
          /\ handleSpeechTimeout
  /\ UNCHANGED <<hasVoice, isProcessingRef, speechPc, startTimers,
                 pendingStarts, taps, fetches, serverVars>>

\* api.parseVoiceCommand(text) returned (it never rejects): a command, which
\* is executed and may throw, or null, which is answered by sayError
BackendReturns ==
  /\ speechPc = "await_backend"
  /\ \E command \in BOOLEAN, throws \in BOOLEAN :
       IF command /\ throws
       THEN /\ CommandFailed
            /\ UNCHANGED mode
       ELSE ReleaseGuard
  /\ UNCHANGED <<hasVoice, startTimers, pendingStarts, isActiveRef,
                 recognizer, absoluteTimerRef, silenceTimerRef, taps,
                 fetches, serverVars>>

\* the steps the runtime takes by itself: timers, promises, recognizer events
VoiceRuntime ==
  \/ startListening
  \/ VoiceStartResolves
  \/ VoiceStartRejects
  \/ AbsoluteTimeout
  \/ SilenceTimeout
  \/ onSpeechPartialResults
  \/ onSpeechResults
  \/ onSpeechEnd
  \/ BackendReturns

NextVoice ==
  \/ activate
  \/ simulateCommand
  \/ VoiceRuntime

\* timers fire, Voice.start settles, the backend call returns; the user is
\* under no obligation to tap
SpecVoice ==
  /\ InitVoice
  /\ [][NextVoice]_vars
  /\ WF_vars(startListening)
  /\ WF_vars(VoiceStartResolves \/ VoiceStartRejects)
  /\ WF_vars(AbsoluteTimeout)
  /\ WF_vars(SilenceTimeout)
  /\ WF_vars(BackendReturns)

----------------------------------------------------------------------------
(* Properties: the voice command mode *)

\* C29: the mode follows idle -> active_listening -> processing -> idle:
\* processing is entered only from active_listening, and once a transcript
\* is in the hands of handleSpeechResult the mode eventually returns to idle
\* with isProcessingRef released, however the transcript is parsed and
\* whether or not the executed callback fails
C29_VoiceCycle ==
  /\ [][(mode' = "processing" /\ mode # "processing")
          => mode = "active_listening"]_vars
  /\ (speechPc # "none") ~> (mode = "idle" /\ ~isProcessingRef)

\* C30: the recognizer runs only while the mode is active_listening, also
\* when a tap cancelled the session before the delayed startListening fired,
\* and a final result of the recognizer moves the mode to processing only
\* from active_listening
C30_RecognitionOnlyWhileListening ==
  [][/\ recognizer' = "on" => mode' = "active_listening"
     /\ (onSpeechResults /\ mode' = "processing" /\ mode # "processing")
          => mode = "active_listening"]_vars

====
